---- MODULE Spec2Model ----
(***************************************************************************)
(* A model of the GPU execution engine of deeplearnjs: the GPGPUContext    *)
(* (gpgpu_context.ts) and the program layer above it (gpgpu_math.ts).      *)
(*                                                                         *)
(* Every method of the context is an operator from a context record to a   *)
(* result [c |-> the context afterwards, thrown |-> the error thrown, or   *)
(* NoError, ret |-> the value returned].  The record holds the fields of   *)
(* the class, the state of the WebGL context behind it, and three logs of  *)
(* the operation in progress: the context methods entered (calls), the     *)
(* WebGL calls issued (glLog) and the console warnings (warnings).         *)
(***************************************************************************)
EXTENDS Integers, Sequences, FiniteSets, TLC

VARIABLES gpgpu, last, heap, arrays, binaries, optimizer

vars == <<gpgpu, last, heap, arrays, binaries, optimizer>>

(***************************************************************************)
(* Bounds of the model.                                                    *)
(***************************************************************************)
MaxPrograms == 2
MaxTextures == 2
MaxDim == 1
MaxFault == 7
MaxSize == 2
MaxAssign == 1
MaxBinaries == 1
MaxKeyDim == 11
MaxExtent == 2
MaxValue == 2
MaxNodes == 2
MaxBatches == 4

Null == 0

NoError == ""
ErrDisposed == "Attempted to use disposed GPGPUContext."
ErrNoProgram == "No GPU program is currently set."
ErrPackedWriteRegion == "setOutputPackedMatrixWriteRegion not implemented."
ErrWebGL == "WebGL Error"
ErrValidation == "Shader program validation failed."
ErrFramebuffer == "Error binding framebuffer"
ErrInputCount == "Binary was compiled with a different number of inputs"
ErrShapes == "Binary was compiled with different shapes than the current args"
ErrTexShapes == "Binary was compiled with different texture shapes than the current args"
ErrUniform == "uniform not present in program."

WarnProgram == "Disposing a GPGPUContext that still has a bound WebGLProgram."
WarnOutput == "Disposing a GPGPUContext that still has a bound output matrix texture."

(***************************************************************************)
(* Results and their sequencing: a throw ends the enclosing method.        *)
(***************************************************************************)
Call(fn, name, args) == [fn |-> fn, name |-> name, args |-> args]

Ok(c) == [c |-> c, thrown |-> NoError, ret |-> Null]

Return(c, v) == [c |-> c, thrown |-> NoError, ret |-> v]

Throw(c, e) == [c |-> c, thrown |-> e, ret |-> Null]

Then(r, F(_)) == IF r.thrown # NoError THEN r ELSE F(r.c)

Enter(c, fn, name, args) == [c EXCEPT !.calls = Append(@, Call(fn, name, args))]

(***************************************************************************)
(* The WebGL context: what each call does to it.                           *)
(***************************************************************************)
(* What a texture holds when no matrix has been uploaded to it since it    *)
(* was allocated or drawn to.                                              *)
Unknown == [format |-> "none", rows |-> 0, columns |-> 0, values |-> <<>>]

glEffect(c, call) ==
  CASE call.fn = "deleteFramebuffer" -> [c EXCEPT !.framebuffer = FALSE]
    [] call.fn = "deleteBuffer" /\ call.name = "vertexBuffer" ->
         [c EXCEPT !.vertexBuffer = FALSE]
    [] call.fn = "deleteBuffer" /\ call.name = "indexBuffer" ->
         [c EXCEPT !.indexBuffer = FALSE]
    [] call.fn = "createTexture" ->
         [c EXCEPT !.glTextures = @ \cup {c.glNextTexture},
                   !.glUnrenderable =
                      IF c.envRenderable THEN @ ELSE @ \cup {c.glNextTexture},
                   !.glTexels = Append(@, Unknown),
                   !.glNextTexture = @ + 1]
    [] call.fn = "deleteTexture" /\ call.args[1] \in c.glTextures ->
         [c EXCEPT !.glTextures = @ \ {call.args[1]},
                   !.glTexels[call.args[1]] = Unknown]
    [] call.fn = "texImage2D" /\ call.args[1] \in c.glTextures ->
         [c EXCEPT !.glTexels[call.args[1]] = Unknown]
    [] call.fn = "texSubImage2D" /\ call.args[1] \in c.glTextures ->
         [c EXCEPT !.glTexels[call.args[1]] =
                      [format |-> call.name, rows |-> call.args[2],
                       columns |-> call.args[3], values |-> call.args[4]]]
    [] call.fn = "drawElements" /\ call.args[1] \in c.glTextures ->
         [c EXCEPT !.glTexels[call.args[1]] = Unknown]
    [] call.fn = "createProgram" ->
         [c EXCEPT !.glPrograms = @ \cup {c.glNextProgram},
                   !.glUniforms = Append(@, {}),
                   !.glNextProgram = @ + 1]
    [] call.fn = "deleteProgram" ->
         [c EXCEPT !.glPrograms = @ \ {call.args[1]}]
    [] call.fn = "useProgram" -> [c EXCEPT !.glCurrentProgram = call.args[1]]
    [] call.fn = "framebufferTexture2D" ->
         [c EXCEPT !.glFbAttachment = call.args[1]]
    [] call.fn = "viewport" -> [c EXCEPT !.glViewport = call.args]
    [] call.fn = "scissor" -> [c EXCEPT !.glScissor = call.args]
    [] call.fn = "bindTexture" ->
         [c EXCEPT !.glTextureUnits[call.args[1]] = call.args[2]]
    [] OTHER -> c

(* webgl_util.callAndCheck: the call is made, then, with debug error       *)
(* checking on, gl.getError() is read and an error is thrown.  The         *)
(* environment picks which checked call of an operation reports an error   *)
(* (faultIn counts down to it; 0: none).                                   *)
callAndCheck(c, call) ==
  LET d == [glEffect(c, call) EXCEPT !.glLog = Append(@, call)] IN
  IF d.glDebugErrorChecking /\ d.faultIn = 1
    THEN Throw([d EXCEPT !.faultIn = 0], ErrWebGL)
    ELSE Ok([d EXCEPT !.faultIn = IF @ > 1 THEN @ - 1 ELSE 0])

RECURSIVE callAllAndCheck(_, _)
callAllAndCheck(c, glCalls) ==
  IF glCalls = <<>> THEN Ok(c)
  ELSE Then(callAndCheck(c, Head(glCalls)),
            LAMBDA d: callAllAndCheck(d, Tail(glCalls)))

ProgramValid(c, p) == p \in c.glPrograms /\ p \notin c.glInvalid

FramebufferComplete(c) ==
  c.glFbAttachment \in c.glTextures /\ c.glFbAttachment \notin c.glUnrenderable

validateProgram(c, p) ==
  Then(callAndCheck(c, Call("validateProgram", "", <<p>>)),
       LAMBDA d: IF ProgramValid(d, p) THEN Ok(d) ELSE Throw(d, ErrValidation))

validateFramebuffer(c) ==
  LET d == [c EXCEPT !.glLog = Append(@, Call("checkFramebufferStatus", "", <<>>))]
  IN IF FramebufferComplete(d) THEN Ok(d) ELSE Throw(d, ErrFramebuffer)

bindColorTextureToFramebuffer(c, texture) ==
  callAllAndCheck(c, << Call("bindFramebuffer", "framebuffer", <<>>),
                        Call("framebufferTexture2D", "", <<texture>>) >>)

unbindColorTextureFromFramebuffer(c) ==
  callAllAndCheck(c, << Call("bindFramebuffer", "framebuffer", <<>>),
                        Call("framebufferTexture2D", "", <<Null>>) >>)

(***************************************************************************)
(* GPGPUContext                                                            *)
(***************************************************************************)
GPGPUContext ==
  [ program |-> Null, outputTexture |-> Null,
    disposed |-> FALSE, autoDebugValidate |-> FALSE,
    vertexBuffer |-> TRUE, indexBuffer |-> TRUE, framebuffer |-> TRUE,
    glDebugErrorChecking |-> FALSE, glContextLost |-> FALSE,
    glPrograms |-> {}, glInvalid |-> {}, glUniforms |-> <<>>, glNextProgram |-> 1,
    glTextures |-> {}, glUnrenderable |-> {}, glNextTexture |-> 1,
    glCurrentProgram |-> Null, glFbAttachment |-> Null,
    glViewport |-> <<>>, glScissor |-> <<>>,
    glTextureUnits |-> <<Null, Null>>, glTexels |-> <<>>,
    calls |-> <<>>, glLog |-> <<>>, warnings |-> <<>>,
    faultIn |-> 0, envRenderable |-> TRUE, envProgram |-> "valid",
    envPixels |-> <<>> ]

throwIfDisposed(c) ==
  IF c.disposed THEN Throw(c, ErrDisposed) ELSE Ok(c)

throwIfNoProgram(c) ==
  IF c.program = Null THEN Throw(c, ErrNoProgram) ELSE Ok(c)

warn(c, msg) == [c EXCEPT !.warnings = Append(@, msg)]

(* A dispose() that refuses to run while a program is bound. *)
dispose_ThrowsWhenBound(c) ==
  Then(throwIfDisposed(c),
       LAMBDA c1:
         IF c1.program # Null THEN Throw(c1, WarnProgram)
         ELSE
         LET c3 == IF c1.outputTexture # Null THEN warn(c1, WarnOutput) ELSE c1
         IN Then(callAllAndCheck(c3,
                   << Call("finish", "", <<>>),
                      Call("bindFramebuffer", "null", <<>>),
                      Call("deleteFramebuffer", "framebuffer", <<>>),
                      Call("bindBuffer", "ARRAY_BUFFER", <<>>),
                      Call("deleteBuffer", "vertexBuffer", <<>>),
                      Call("bindBuffer", "ELEMENT_ARRAY_BUFFER", <<>>),
                      Call("deleteBuffer", "indexBuffer", <<>>) >>),
                 LAMBDA c4:
                   Ok([c4 EXCEPT !.glContextLost = TRUE, !.disposed = TRUE])))

(* A dispose() that lacks the guard of line 60. *)
dispose_Unguarded(c) ==
  LET c2 == IF c.program # Null THEN warn(c, WarnProgram) ELSE c
      c3 == IF c2.outputTexture # Null THEN warn(c2, WarnOutput) ELSE c2
  IN Then(callAllAndCheck(c3,
            << Call("finish", "", <<>>),
               Call("bindFramebuffer", "null", <<>>),
               Call("deleteFramebuffer", "framebuffer", <<>>),
               Call("bindBuffer", "ARRAY_BUFFER", <<>>),
               Call("deleteBuffer", "vertexBuffer", <<>>),
               Call("bindBuffer", "ELEMENT_ARRAY_BUFFER", <<>>),
               Call("deleteBuffer", "indexBuffer", <<>>) >>),
          LAMBDA c4: Ok([c4 EXCEPT !.glContextLost = TRUE, !.disposed = TRUE]))

(* A dispose() that marks the context disposed before it releases. *)
dispose_MarksFirst(c) ==
  Then(throwIfDisposed(c),
       LAMBDA c1:
         LET c2 == IF c1.program # Null THEN warn(c1, WarnProgram) ELSE c1
             c3 == IF c2.outputTexture # Null THEN warn(c2, WarnOutput) ELSE c2
         IN Then(callAllAndCheck([c3 EXCEPT !.disposed = TRUE],
                   << Call("finish", "", <<>>),
                      Call("bindFramebuffer", "null", <<>>),
                      Call("deleteFramebuffer", "framebuffer", <<>>),
                      Call("bindBuffer", "ARRAY_BUFFER", <<>>),
                      Call("deleteBuffer", "vertexBuffer", <<>>),
                      Call("bindBuffer", "ELEMENT_ARRAY_BUFFER", <<>>),
                      Call("deleteBuffer", "indexBuffer", <<>>) >>),
                 LAMBDA c4: Ok([c4 EXCEPT !.glContextLost = TRUE])))

dispose(c) ==
  Then(throwIfDisposed(c),
       LAMBDA c1:
         LET c2 == IF c1.program # Null THEN warn(c1, WarnProgram) ELSE c1
             c3 == IF c2.outputTexture # Null THEN warn(c2, WarnOutput) ELSE c2
         IN Then(callAllAndCheck(c3,
                   << Call("finish", "", <<>>),
                      Call("bindFramebuffer", "null", <<>>),
                      Call("deleteFramebuffer", "framebuffer", <<>>),
                      Call("bindBuffer", "ARRAY_BUFFER", <<>>),
                      Call("deleteBuffer", "vertexBuffer", <<>>),
                      Call("bindBuffer", "ELEMENT_ARRAY_BUFFER", <<>>),
                      Call("deleteBuffer", "indexBuffer", <<>>) >>),
                 LAMBDA c4:
                   Ok([c4 EXCEPT !.glContextLost = TRUE, !.disposed = TRUE])))

enableAutomaticDebugValidation(c, enabled) ==
  Ok([c EXCEPT !.autoDebugValidate = enabled,
               !.glDebugErrorChecking = enabled])

(* gpgpu_util.createMatrixTexture / createPackedMatrixTexture: a new       *)
(* texture handle with storage for rows x columns values.                  *)
createTexture(c, kind, rows, columns) ==
  LET texture == c.glNextTexture IN
  Then(callAllAndCheck(c, << Call("createTexture", kind, <<>>),
                             Call("texImage2D", kind, <<texture, rows, columns>>) >>),
       LAMBDA d: Return(d, texture))

createMatrixTexture(c, rows, columns) ==
  Then(throwIfDisposed(c),
       LAMBDA c1: createTexture(c1, "unpacked", rows, columns))

uploadPixelDataToTexture(c, texture) ==
  Then(throwIfDisposed(c),
       LAMBDA c1: callAndCheck(c1, Call("texImage2D", "pixels", <<texture>>)))

createPackedMatrixTexture(c, rows, columns) ==
  Then(throwIfDisposed(c),
       LAMBDA c1: createTexture(c1, "packed", rows, columns))

(* A deleteMatrixTexture that unbinds the output whatever texture is deleted. *)
deleteMatrixTexture_AlwaysUnbinds(c, texture) ==
  Then(throwIfDisposed(c),
       LAMBDA c1:
         Then(Then(unbindColorTextureFromFramebuffer(c1),
                   LAMBDA c2: Ok([c2 EXCEPT !.outputTexture = Null])),
              LAMBDA c3:
                callAndCheck(c3, Call("deleteTexture", "", <<texture>>))))

deleteMatrixTexture(c, texture) ==
  Then(throwIfDisposed(c),
       LAMBDA c1:
         Then(IF c1.outputTexture = texture
                THEN Then(unbindColorTextureFromFramebuffer(c1),
                          LAMBDA c2: Ok([c2 EXCEPT !.outputTexture = Null]))
                ELSE Ok(c1),
              LAMBDA c3:
                callAndCheck(c3, Call("deleteTexture", "", <<texture>>))))

uploadMatrixToTexture(c, texture, rows, columns, matrix) ==
  Then(throwIfDisposed(c),
       LAMBDA c1:
         callAndCheck(c1, Call("texSubImage2D", "unpacked",
                               <<texture, rows, columns, matrix>>)))

uploadMatrixToPackedTexture(c, texture, rows, columns, matrix) ==
  Then(throwIfDisposed(c),
       LAMBDA c1:
         callAndCheck(c1, Call("texSubImage2D", "packed",
                               <<texture, rows, columns, matrix>>)))

(* gpgpu_util.downloadMatrixFrom[Packed]OutputTexture: the matrix read     *)
(* from the texture attached to the framebuffer; it is the uploaded one    *)
(* when the texture holds a matrix of this format, rows and columns, and   *)
(* whatever the driver yields when it does not.                            *)
downloadMatrixFromOutputTexture(c, format, rows, columns) ==
  LET texels == IF c.glFbAttachment \in DOMAIN c.glTexels
                  THEN c.glTexels[c.glFbAttachment] ELSE Unknown
  IN IF texels.format = format /\ texels.rows = rows /\ texels.columns = columns
       THEN texels.values ELSE c.envPixels

(* A download that reads whatever is attached when an output is bound. *)
downloadMatrixDriver_ReadsBoundOutput(c, texture, kind, rows, columns) ==
  Then(throwIfDisposed(c),
       LAMBDA c1:
         Then(IF c1.outputTexture # Null
                THEN Ok(c1) ELSE bindColorTextureToFramebuffer(c1, texture),
              LAMBDA c2:
                Then(callAndCheck(c2, Call("readPixels", kind, <<rows, columns>>)),
                     LAMBDA c3:
                       LET result == downloadMatrixFromOutputTexture(
                                       c3, kind, rows, columns)
                       IN Then(IF c3.outputTexture # Null
                                 THEN Then(bindColorTextureToFramebuffer(
                                             c3, c3.outputTexture),
                                           LAMBDA c4:
                                             IF c4.autoDebugValidate
                                               THEN validateFramebuffer(c4)
                                               ELSE Ok(c4))
                                 ELSE unbindColorTextureFromFramebuffer(c3),
                               LAMBDA c5: Return(c5, result)))))

(* A download that leaves the downloaded texture attached. *)
downloadMatrixDriver_LeavesAttached(c, texture, kind, rows, columns) ==
  Then(throwIfDisposed(c),
       LAMBDA c1:
         Then(bindColorTextureToFramebuffer(c1, texture),
              LAMBDA c2:
                Then(callAndCheck(c2, Call("readPixels", kind, <<rows, columns>>)),
                     LAMBDA c3:
                       Return(c3, downloadMatrixFromOutputTexture(
                                    c3, kind, rows, columns)))))

downloadMatrixDriver(c, texture, kind, rows, columns) ==
  Then(throwIfDisposed(c),
       LAMBDA c1:
         Then(bindColorTextureToFramebuffer(c1, texture),
              LAMBDA c2:
                Then(callAndCheck(c2, Call("readPixels", kind, <<rows, columns>>)),
                     LAMBDA c3:
                       LET result == downloadMatrixFromOutputTexture(
                                       c3, kind, rows, columns)
                       IN Then(IF c3.outputTexture # Null
                                 THEN Then(bindColorTextureToFramebuffer(
                                             c3, c3.outputTexture),
                                           LAMBDA c4:
                                             IF c4.autoDebugValidate
                                               THEN validateFramebuffer(c4)
                                               ELSE Ok(c4))
                                 ELSE unbindColorTextureFromFramebuffer(c3),
                               LAMBDA c5: Return(c5, result)))))

downloadMatrixFromTexture(c, texture, rows, columns) ==
  downloadMatrixDriver(c, texture, "unpacked", rows, columns)

downloadMatrixFromPackedTexture(c, texture, rows, columns) ==
  downloadMatrixDriver(c, texture, "packed", rows, columns)

(* The uniforms a generated shader source declares: one sampler per input. *)
Uniforms(source) ==
  { source.inputInfos[i].name : i \in DOMAIN source.inputInfos }

(* webgl_util.createFragmentShader: a source that does not compile throws. *)
createFragmentShader(c, source) ==
  LET d == [c EXCEPT !.glLog = Append(@, Call("compileShader", "fragment", <<>>))]
  IN IF d.envProgram = "compileError"
       THEN Throw(d, "Failed to compile fragment shader.")
       ELSE Ok(d)

(* webgl_util.linkProgram: fixes the program's uniforms and whether it     *)
(* validates.                                                              *)
linkProgram(c, program, source) ==
  Ok([c EXCEPT !.glLog = Append(@, Call("linkProgram", "", <<program>>)),
               !.glUniforms[program] = Uniforms(source),
               !.glInvalid = IF c.envProgram = "invalid"
                               THEN @ \cup {program} ELSE @])

createProgram(c, fragmentShaderSource) ==
  LET program == c.glNextProgram IN
  Then(throwIfDisposed(c),
   LAMBDA c1:
    Then(createFragmentShader(c1, fragmentShaderSource),
     LAMBDA c2:
      Then(callAllAndCheck(c2, << Call("compileShader", "vertex", <<>>),
                                  Call("createProgram", "", <<>>),
                                  Call("attachShader", "vertex", <<program>>),
                                  Call("attachShader", "fragment", <<program>>) >>),
       LAMBDA c3:
        Then(linkProgram(c3, program, fragmentShaderSource),
         LAMBDA c4:
          Then(IF c4.autoDebugValidate THEN validateProgram(c4, program) ELSE Ok(c4),
           LAMBDA c5: Return(c5, program))))))

(* A deleteProgram that clears the slot whatever program is deleted. *)
deleteProgram_AlwaysClears(c, program) ==
  Then(throwIfDisposed(c),
       LAMBDA c1:
         LET c2 == [c1 EXCEPT !.program = Null]
         IN IF program # Null
              THEN callAndCheck(c2, Call("deleteProgram", "", <<program>>))
              ELSE Ok(c2))

(* A deleteProgram that leaves the bound-program slot as it is. *)
deleteProgram_KeepsSlot(c, program) ==
  Then(throwIfDisposed(c),
       LAMBDA c1:
         IF program # Null
           THEN callAndCheck(c1, Call("deleteProgram", "", <<program>>))
           ELSE Ok(c1))

deleteProgram(c, program) ==
  Then(throwIfDisposed(c),
       LAMBDA c1:
         LET c2 == IF program = c1.program THEN [c1 EXCEPT !.program = Null] ELSE c1
         IN IF program # Null
              THEN callAndCheck(c2, Call("deleteProgram", "", <<program>>))
              ELSE Ok(c2))

setProgram(c, program) ==
  Then(throwIfDisposed(c),
       LAMBDA c1:
         LET c2 == [c1 EXCEPT !.program = program]
         IN Then(IF c2.program # Null /\ c2.autoDebugValidate
                   THEN validateProgram(c2, c2.program)
                   ELSE Ok(c2),
                 LAMBDA c3: callAndCheck(c3, Call("useProgram", "", <<program>>))))

(* webgl_util.getProgramUniformLocationOrThrow *)
getProgramUniformLocationOrThrow(c, program, uniformName) ==
  Then(callAndCheck(c, Call("getUniformLocation", uniformName, <<program>>)),
       LAMBDA d:
         IF program \in d.glPrograms /\ uniformName \in d.glUniforms[program]
           THEN Ok(d)
           ELSE Throw(d, ErrUniform))

getUniformLocation(c, uniformName) ==
  Then(throwIfDisposed(c),
       LAMBDA c1:
         Then(throwIfNoProgram(c1),
              LAMBDA c2: getProgramUniformLocationOrThrow(c2, c2.program, uniformName)))

(* webgl_util.bindTextureToProgramUniformSampler *)
bindTextureToProgramUniformSampler(c, program, texture, uniformName, textureUnit) ==
  Then(callAllAndCheck(c, << Call("activeTexture", "", <<textureUnit>>),
                             Call("bindTexture", "", <<textureUnit + 1, texture>>) >>),
       LAMBDA c1:
         Then(getProgramUniformLocationOrThrow(c1, program, uniformName),
              LAMBDA c2:
                callAndCheck(c2, Call("uniform1i", uniformName, <<textureUnit>>))))

setInputMatrixTexture(c, inputMatrixTexture, uniformName, textureUnit) ==
  Then(throwIfDisposed(c),
       LAMBDA c1:
         Then(throwIfNoProgram(c1),
              LAMBDA c2:
                bindTextureToProgramUniformSampler(
                  c2, c2.program, inputMatrixTexture, uniformName, textureUnit)))

setOutputMatrixTextureDriver(c, outputMatrixTextureMaybePacked, width, height) ==
  Then(throwIfDisposed(c),
   LAMBDA c1:
    Then(bindColorTextureToFramebuffer(c1, outputMatrixTextureMaybePacked),
     LAMBDA c2:
      Then(IF c2.autoDebugValidate THEN validateFramebuffer(c2) ELSE Ok(c2),
       LAMBDA c3:
        callAllAndCheck([c3 EXCEPT !.outputTexture = outputMatrixTextureMaybePacked],
                        << Call("viewport", "", <<0, 0, width, height>>),
                           Call("scissor", "", <<0, 0, width, height>>) >>))))

setOutputMatrixTexture_RowsAsWidth(c, outputMatrixTexture, rows, columns) ==
  setOutputMatrixTextureDriver(c, outputMatrixTexture, rows, columns)

setOutputMatrixTexture(c, outputMatrixTexture, rows, columns) ==
  setOutputMatrixTextureDriver(c, outputMatrixTexture, columns, rows)

(* tex_util.getPackedMatrixTextureShapeWidthHeight: [ceil(columns / 2),    *)
(* ceil(rows / 2)]                                                         *)
getPackedMatrixTextureShapeWidthHeight(rows, columns) ==
  << (columns + 1) \div 2, (rows + 1) \div 2 >>

setOutputPackedMatrixTexture(c, outputPackedMatrixTexture, rows, columns) ==
  Then(throwIfDisposed(c),
       LAMBDA c1:
         LET wh == getPackedMatrixTextureShapeWidthHeight(rows, columns)
         IN setOutputMatrixTextureDriver(c1, outputPackedMatrixTexture, wh[1], wh[2]))

setOutputMatrixWriteRegionDriver(c, x, y, width, height) ==
  Then(throwIfDisposed(c),
       LAMBDA c1: callAndCheck(c1, Call("scissor", "", <<x, y, width, height>>)))

setOutputMatrixWriteRegion(c, startRow, numRows, startColumn, numColumns) ==
  setOutputMatrixWriteRegionDriver(c, startColumn, startRow, numColumns, numRows)

setOutputPackedMatrixWriteRegion(c, startRow, numRows, startColumn, numColumns) ==
  Throw(c, ErrPackedWriteRegion)

debugValidate(c) ==
  Then(IF c.program # Null THEN validateProgram(c, c.program) ELSE Ok(c),
       LAMBDA c1: validateFramebuffer(c1))

(* An executeProgram that lacks the guard of line 239. *)
executeProgram_NoProgramCheck(c) ==
  Then(throwIfDisposed(c),
   LAMBDA c2:
    Then(callAndCheck(c2, Call("bindVertexProgramAttributeStreams", "",
                               <<c2.program>>)),
     LAMBDA c3:
      Then(IF c3.autoDebugValidate THEN debugValidate(c3) ELSE Ok(c3),
       LAMBDA c4:
        callAndCheck(c4, Call("drawElements", "", <<c4.glFbAttachment>>)))))

executeProgram(c) ==
  Then(throwIfDisposed(c),
   LAMBDA c1:
    Then(throwIfNoProgram(c1),
     LAMBDA c2:
      Then(callAndCheck(c2, Call("bindVertexProgramAttributeStreams", "",
                                 <<c2.program>>)),
       LAMBDA c3:
        Then(IF c3.autoDebugValidate THEN debugValidate(c3) ELSE Ok(c3),
         LAMBDA c4:
          callAndCheck(c4, Call("drawElements", "", <<c4.glFbAttachment>>))))))

blockUntilAllProgramsCompleted_NoWait(c) ==
  Then(throwIfDisposed(c), LAMBDA c1: Ok(c1))

blockUntilAllProgramsCompleted(c) ==
  Then(throwIfDisposed(c),
       LAMBDA c1: callAndCheck(c1, Call("finish", "", <<>>)))

(***************************************************************************)
(* shader_compiler.makeShader: the source is a function of the operands'   *)
(* names and shapes, the output shape, the user code and the broadcast     *)
(* flag, and of nothing else.                                              *)
(***************************************************************************)
makeShader(inputInfos, outShapeInfo, userCode, broadcast) ==
  [ inputInfos |-> inputInfos, outShapeInfo |-> outShapeInfo,
    userCode |-> userCode, broadcast |-> broadcast ]

(***************************************************************************)
(* gpgpu_math.  Arrays of numbers are objects: heap h holds them, and a    *)
(* shape held by an NDArray or by a ShapeInfo is a reference into h.  An   *)
(* NDArray is [shape, textureShapeRC, texture].                            *)
(***************************************************************************)
getTextureShapeRC(x) == x.textureShapeRC

getTexture(x) == x.texture

(* util.arraysEqual *)
arraysEqual(n1, n2) ==
  /\ Len(n1) = Len(n2)
  /\ \A i \in 1..Len(n1) : n1[i] = n2[i]

(* The numbers a ShapeInfo refers to. *)
ReadShapeInfo(h, shapeInfo) ==
  [logicalShape |-> h[shapeInfo.logicalShape], texShape |-> h[shapeInfo.texShape]]

ReadInputInfos(h, inputInfos) ==
  [i \in DOMAIN inputInfos |->
     [name |-> inputInfos[i].name,
      shapeInfo |-> ReadShapeInfo(h, inputInfos[i].shapeInfo)]]

(* A compileProgram that hands out the binary it has for the same source. *)
compileProgram_Memoized(c, h, program, inputs, output) ==
  LET inputInfos ==
        [i \in DOMAIN inputs |->
           [name |-> program.variableNames[i],
            shapeInfo |-> [logicalShape |-> inputs[i].shape,
                           texShape |-> getTextureShapeRC(inputs[i])]]]
      outShapeInfo == [logicalShape |-> output.shape,
                       texShape |-> getTextureShapeRC(output)]
      source == makeShader(ReadInputInfos(h, inputInfos),
                           ReadShapeInfo(h, outShapeInfo), program.userCode,
                           "supportsBroadcasting" \in DOMAIN program
                             /\ program.supportsBroadcasting = TRUE)
      cached == {b \in DOMAIN binaries : binaries[b].source = source}
      r == createProgram(Enter(Enter(c, "makeShader", program.userCode, <<>>),
                               "createProgram", program.userCode, <<>>), source)
  IN IF cached # {}
       THEN Return(Enter(c, "makeShader", program.userCode, <<>>),
                   binaries[CHOOSE b \in cached : TRUE])
       ELSE IF r.thrown # NoError
         THEN r
         ELSE Return(r.c, [program |-> program,
                           source |-> source,
                           webGLProgram |-> r.ret,
                           inShapeInfos |-> [i \in DOMAIN inputInfos |->
                                               inputInfos[i].shapeInfo],
                           outShapeInfo |-> outShapeInfo])

compileProgram(c, h, program, inputs, output) ==
  LET userCode == program.userCode
      inputInfos ==
        [i \in DOMAIN inputs |->
           [name |-> program.variableNames[i],
            shapeInfo |-> [logicalShape |-> inputs[i].shape,
                           texShape |-> getTextureShapeRC(inputs[i])]]]
      inShapeInfos == [i \in DOMAIN inputInfos |-> inputInfos[i].shapeInfo]
      outShapeInfo == [logicalShape |-> output.shape,
                       texShape |-> getTextureShapeRC(output)]
      source == makeShader(ReadInputInfos(h, inputInfos),
                           ReadShapeInfo(h, outShapeInfo), userCode,
                           "supportsBroadcasting" \in DOMAIN program
                             /\ program.supportsBroadcasting = TRUE)
      r == createProgram(Enter(Enter(c, "makeShader", userCode, <<>>),
                               "createProgram", userCode, <<>>), source)
  IN IF r.thrown # NoError
       THEN r
       ELSE Return(r.c, [program |-> program,
                         source |-> source,
                         webGLProgram |-> r.ret,
                         inShapeInfos |-> inShapeInfos,
                         outShapeInfo |-> outShapeInfo])

(* A validateBinaryAndProgram that lacks the comparison of lines 201-205. *)
validateBinaryAndProgram_IgnoresTexShape(c, h, shapeInfos, inputs) ==
  IF Len(shapeInfos) # Len(inputs)
    THEN Throw(c, ErrInputCount)
    ELSE IF \E i \in DOMAIN shapeInfos :
              ~arraysEqual(h[shapeInfos[i].logicalShape], h[inputs[i].shape])
           THEN Throw(c, ErrShapes)
           ELSE Ok(c)

validateBinaryAndProgram(c, h, shapeInfos, inputs) ==
  IF Len(shapeInfos) # Len(inputs)
    THEN Throw(c, ErrInputCount)
    ELSE
      LET shapeA(i) == h[shapeInfos[i].logicalShape]
          texShapeA(i) == h[shapeInfos[i].texShape]
          shapeB(i) == h[inputs[i].shape]
          texShapeB(i) == h[getTextureShapeRC(inputs[i])]
          differ == { i \in DOMAIN shapeInfos :
                        \/ ~arraysEqual(shapeA(i), shapeB(i))
                        \/ ~arraysEqual(texShapeA(i), texShapeB(i)) }
      IN IF differ = {}
           THEN Ok(c)
           ELSE LET i == CHOOSE j \in differ : \A k \in differ : j <= k
                IN IF ~arraysEqual(shapeA(i), shapeB(i))
                     THEN Throw(c, ErrShapes)
                     ELSE Throw(c, ErrTexShapes)

(* inputs.forEach of lines 221-224, from input i on. *)
RECURSIVE setInputMatrixTextures(_, _, _, _)
setInputMatrixTextures(c, binary, inputs, i) ==
  IF i > Len(inputs)
    THEN Ok(c)
    ELSE LET tex == getTexture(inputs[i])
             name == binary.program.variableNames[i]
         IN Then(setInputMatrixTexture(
                   Enter(c, "setInputMatrixTexture", name, <<tex, i - 1>>),
                   tex, name, i - 1),
                 LAMBDA d: setInputMatrixTextures(d, binary, inputs, i + 1))

(* The optional hook of a caller: "none" is its absence; a hook looks up   *)
(* the uniform it is about to set.                                         *)
customSetup(c, hook) ==
  IF hook = "none"
    THEN Ok(c)
    ELSE getUniformLocation(Enter(c, "customSetup", hook, <<>>), hook)

(* A runProgram that binds the inputs before the program. *)
runProgram_InputsFirst(c, h, binary, inputs, output, hook) ==
  Then(validateBinaryAndProgram(c, h, binary.inShapeInfos, inputs),
   LAMBDA c1:
    Then(validateBinaryAndProgram(c1, h, <<binary.outShapeInfo>>, <<output>>),
     LAMBDA c2:
      LET outTex == getTexture(output)
          outTexShape == h[getTextureShapeRC(output)]
      IN
      Then(setOutputMatrixTexture(
             Enter(c2, "setOutputMatrixTexture", "",
                   <<outTex, outTexShape[1], outTexShape[2]>>),
             outTex, outTexShape[1], outTexShape[2]),
       LAMBDA c3:
        Then(setInputMatrixTextures(c3, binary, inputs, 1),
         LAMBDA c4:
          Then(setProgram(Enter(c4, "setProgram", "", <<binary.webGLProgram>>),
                          binary.webGLProgram),
           LAMBDA c5:
            Then(customSetup(c5, hook),
             LAMBDA c6:
              executeProgram(Enter(c6, "executeProgram", "", <<>>))))))))

(* A runProgram that binds the output before it validates the shapes. *)
runProgram_ValidatesLate(c, h, binary, inputs, output, hook) ==
  LET outTex == getTexture(output)
      outTexShape == h[getTextureShapeRC(output)]
  IN
  Then(setOutputMatrixTexture(
         Enter(c, "setOutputMatrixTexture", "",
               <<outTex, outTexShape[1], outTexShape[2]>>),
         outTex, outTexShape[1], outTexShape[2]),
   LAMBDA c1:
    Then(validateBinaryAndProgram(c1, h, binary.inShapeInfos, inputs),
     LAMBDA c2:
      Then(validateBinaryAndProgram(c2, h, <<binary.outShapeInfo>>, <<output>>),
       LAMBDA c3:
        Then(setProgram(Enter(c3, "setProgram", "", <<binary.webGLProgram>>),
                        binary.webGLProgram),
         LAMBDA c4:
          Then(setInputMatrixTextures(c4, binary, inputs, 1),
           LAMBDA c5:
            Then(customSetup(c5, hook),
             LAMBDA c6:
              executeProgram(Enter(c6, "executeProgram", "", <<>>))))))))

(* A runProgram that validates the output before the inputs. *)
runProgram_OutputFirst(c, h, binary, inputs, output, hook) ==
  Then(validateBinaryAndProgram(c, h, <<binary.outShapeInfo>>, <<output>>),
   LAMBDA c1:
    Then(validateBinaryAndProgram(c1, h, binary.inShapeInfos, inputs),
     LAMBDA c2:
      LET outTex == getTexture(output)
          outTexShape == h[getTextureShapeRC(output)]
      IN
      Then(setOutputMatrixTexture(
             Enter(c2, "setOutputMatrixTexture", "",
                   <<outTex, outTexShape[1], outTexShape[2]>>),
             outTex, outTexShape[1], outTexShape[2]),
       LAMBDA c3:
        Then(setProgram(Enter(c3, "setProgram", "", <<binary.webGLProgram>>),
                        binary.webGLProgram),
         LAMBDA c4:
          Then(setInputMatrixTextures(c4, binary, inputs, 1),
           LAMBDA c5:
            Then(customSetup(c5, hook),
             LAMBDA c6:
              executeProgram(Enter(c6, "executeProgram", "", <<>>))))))))

runProgram(c, h, binary, inputs, output, hook) ==
  Then(validateBinaryAndProgram(c, h, binary.inShapeInfos, inputs),
   LAMBDA c1:
    Then(validateBinaryAndProgram(c1, h, <<binary.outShapeInfo>>, <<output>>),
     LAMBDA c2:
      LET outTex == getTexture(output)
          outTexShape == h[getTextureShapeRC(output)]
      IN
      Then(setOutputMatrixTexture(
             Enter(c2, "setOutputMatrixTexture", "",
                   <<outTex, outTexShape[1], outTexShape[2]>>),
             outTex, outTexShape[1], outTexShape[2]),
       LAMBDA c3:
        Then(setProgram(Enter(c3, "setProgram", "", <<binary.webGLProgram>>),
                        binary.webGLProgram),
         LAMBDA c4:
          Then(setInputMatrixTextures(c4, binary, inputs, 1),
           LAMBDA c5:
            Then(customSetup(c5, hook),
             LAMBDA c6:
              executeProgram(Enter(c6, "executeProgram", "", <<>>))))))))

(* Number.prototype.toString of a natural number: its decimal digits. *)
RECURSIVE NumberToString(_)
NumberToString(n) ==
  LET digit == <<"0", "1", "2", "3", "4", "5", "6", "7", "8", "9">>[(n % 10) + 1]
  IN IF n < 10 THEN <<digit>> ELSE Append(NumberToString(n \div 10), digit)

(* Array.prototype.join: a string is the sequence of its characters. *)
RECURSIVE Join(_, _)
Join(strings, separator) ==
  IF Len(strings) = 0 THEN <<>>
  ELSE IF Len(strings) = 1 THEN strings[1]
  ELSE strings[1] \o <<separator>> \o Join(Tail(strings), separator)

(* Array.prototype.toString of an array of numbers: join(","). *)
ArrayToString(numbers) ==
  Join([i \in 1..Len(numbers) |-> NumberToString(numbers[i])], ",")

(* A makeShaderKey that leaves the texture shapes out of the key. *)
makeShaderKey_WithoutTexShapes(h, program, inputs, output) ==
  LET params == program.params
      operands == inputs \o <<output>>
      keyStart == [i \in 1..Len(operands) |->
                     ArrayToString(h[operands[i].shape]) \o <<"_">>]
      keyEnd == [i \in 1..Len(params) |-> NumberToString(params[i])]
      key == << <<program.constructorName>>,
                <<IF "supportsBroadcasting" \in DOMAIN program
                       /\ program.supportsBroadcasting = TRUE
                    THEN "true" ELSE "false">> >>
              \o keyStart \o keyEnd
  IN Join(key, "_")

(* A key whose flag is "true" unless supportsBroadcasting is false. *)
makeShaderKey_FlagNotFalse(h, program, inputs, output) ==
  LET params == program.params
      operands == inputs \o <<output>>
      keyStart == [i \in 1..Len(operands) |->
                     ArrayToString(h[operands[i].shape]) \o <<"_">>
                       \o ArrayToString(h[getTextureShapeRC(operands[i])])]
      keyEnd == [i \in 1..Len(params) |-> NumberToString(params[i])]
      key == << <<program.constructorName>>,
                <<IF "supportsBroadcasting" \in DOMAIN program
                       /\ program.supportsBroadcasting = FALSE
                    THEN "false" ELSE "true">> >>
              \o keyStart \o keyEnd
  IN Join(key, "_")

makeShaderKey(h, program, inputs, output) ==
  LET params == program.params
      operands == inputs \o <<output>>
      keyStart == [i \in 1..Len(operands) |->
                     ArrayToString(h[operands[i].shape]) \o <<"_">>
                       \o ArrayToString(h[getTextureShapeRC(operands[i])])]
      keyEnd == [i \in 1..Len(params) |-> NumberToString(params[i])]
      key == << <<program.constructorName>>,
                <<IF "supportsBroadcasting" \in DOMAIN program
                       /\ program.supportsBroadcasting = TRUE
                    THEN "true" ELSE "false">> >>
              \o keyStart \o keyEnd
  IN Join(key, "_")

(***************************************************************************)
(* The calls a user of the context makes.  Each starts with empty logs and *)
(* with what the environment decides for it: which checked WebGL call, if  *)
(* any, reports an error, whether a texture created is renderable and      *)
(* whether a program created compiles and validates.                       *)
(***************************************************************************)
Dims == 1..MaxDim
Starts == 0..(MaxDim - 1)
(* The Float32Arrays of rows * columns values. *)
Matrices(rows, columns) == [1..(rows * columns) -> 1..MaxValue]
UniformNames == {"A", "B"}
TextureUnits == {0, 1}

ProgramHandles(c) == 0..(c.glNextProgram - 1)
TextureHandles(c) == 1..(c.glNextTexture - 1)

ScalarInfo == [logicalShape |-> <<>>, texShape |-> <<1, 1>>]

Reset(c, fault) ==
  [c EXCEPT !.calls = <<>>, !.glLog = <<>>, !.warnings = <<>>, !.faultIn = fault]

Begin(c, fn, name, args, fault) == Enter(Reset(c, fault), fn, name, args)

End(c) ==
  [c EXCEPT !.faultIn = 0, !.envRenderable = TRUE, !.envProgram = "valid",
            !.envPixels = <<>>]

Done(fn, name, args, r) ==
  /\ gpgpu' = End(r.c)
  /\ last' = [op |-> fn, name |-> name, args |-> args,
              thrown |-> r.thrown, ret |-> r.ret]

Dispose(faults) ==
  \E f \in faults :
    /\ Done("dispose", "", <<>>, dispose(Begin(gpgpu, "dispose", "", <<>>, f)))
    /\ UNCHANGED <<heap, arrays, binaries, optimizer>>

EnableAutomaticDebugValidation ==
  \E enabled \in BOOLEAN :
    /\ Done("enableAutomaticDebugValidation", "", <<IF enabled THEN 1 ELSE 0>>,
            enableAutomaticDebugValidation(
              Begin(gpgpu, "enableAutomaticDebugValidation", "",
                    <<IF enabled THEN 1 ELSE 0>>, 0), enabled))
    /\ UNCHANGED <<heap, arrays, binaries, optimizer>>

CreateMatrixTexture(faults, renderables) ==
  \E rows \in Dims, columns \in Dims, f \in faults, renderable \in renderables :
    /\ gpgpu.glNextTexture <= MaxTextures
    /\ Done("createMatrixTexture", "", <<rows, columns>>,
            createMatrixTexture(
              [Begin(gpgpu, "createMatrixTexture", "", <<rows, columns>>, f)
                 EXCEPT !.envRenderable = renderable], rows, columns))
    /\ UNCHANGED <<heap, arrays, binaries, optimizer>>

CreatePackedMatrixTexture(faults, renderables) ==
  \E rows \in Dims, columns \in Dims, f \in faults, renderable \in renderables :
    /\ gpgpu.glNextTexture <= MaxTextures
    /\ Done("createPackedMatrixTexture", "", <<rows, columns>>,
            createPackedMatrixTexture(
              [Begin(gpgpu, "createPackedMatrixTexture", "", <<rows, columns>>, f)
                 EXCEPT !.envRenderable = renderable], rows, columns))
    /\ UNCHANGED <<heap, arrays, binaries, optimizer>>

UploadPixelDataToTexture(faults) ==
  \E t \in TextureHandles(gpgpu), f \in faults :
    /\ Done("uploadPixelDataToTexture", "", <<t>>,
            uploadPixelDataToTexture(
              Begin(gpgpu, "uploadPixelDataToTexture", "", <<t>>, f), t))
    /\ UNCHANGED <<heap, arrays, binaries, optimizer>>

DeleteMatrixTexture(faults) ==
  \E t \in TextureHandles(gpgpu), f \in faults :
    /\ Done("deleteMatrixTexture", "", <<t>>,
            deleteMatrixTexture(Begin(gpgpu, "deleteMatrixTexture", "", <<t>>, f), t))
    /\ UNCHANGED <<heap, arrays, binaries, optimizer>>

UploadMatrixToTexture(faults) ==
  \E t \in TextureHandles(gpgpu), rows \in Dims, columns \in Dims, f \in faults :
    \E matrix \in Matrices(rows, columns) :
      /\ Done("uploadMatrixToTexture", "", <<t, rows, columns, matrix>>,
              uploadMatrixToTexture(
                Begin(gpgpu, "uploadMatrixToTexture", "",
                      <<t, rows, columns, matrix>>, f),
                t, rows, columns, matrix))
    /\ UNCHANGED <<heap, arrays, binaries, optimizer>>

UploadMatrixToPackedTexture(faults) ==
  \E t \in TextureHandles(gpgpu), rows \in Dims, columns \in Dims, f \in faults :
    \E matrix \in Matrices(rows, columns) :
      /\ Done("uploadMatrixToPackedTexture", "", <<t, rows, columns, matrix>>,
              uploadMatrixToPackedTexture(
                Begin(gpgpu, "uploadMatrixToPackedTexture", "",
                      <<t, rows, columns, matrix>>, f),
                t, rows, columns, matrix))
    /\ UNCHANGED <<heap, arrays, binaries, optimizer>>

DownloadMatrixFromTexture(faults) ==
  \E t \in TextureHandles(gpgpu), rows \in Dims, columns \in Dims, f \in faults :
    \E pixels \in Matrices(rows, columns) :
      /\ Done("downloadMatrixFromTexture", "", <<t, rows, columns>>,
              downloadMatrixFromTexture(
                [Begin(gpgpu, "downloadMatrixFromTexture", "",
                       <<t, rows, columns>>, f) EXCEPT !.envPixels = pixels],
                t, rows, columns))
    /\ UNCHANGED <<heap, arrays, binaries, optimizer>>

DownloadMatrixFromPackedTexture(faults) ==
  \E t \in TextureHandles(gpgpu), rows \in Dims, columns \in Dims, f \in faults :
    \E pixels \in Matrices(rows, columns) :
      /\ Done("downloadMatrixFromPackedTexture", "", <<t, rows, columns>>,
              downloadMatrixFromPackedTexture(
                [Begin(gpgpu, "downloadMatrixFromPackedTexture", "",
                       <<t, rows, columns>>, f) EXCEPT !.envPixels = pixels],
                t, rows, columns))
    /\ UNCHANGED <<heap, arrays, binaries, optimizer>>

CreateProgram(faults, sources, envs) ==
  \E source \in sources, f \in faults, env \in envs :
    /\ gpgpu.glNextProgram <= MaxPrograms
    /\ Done("createProgram", source.userCode, <<>>,
            createProgram(
              [Begin(gpgpu, "createProgram", source.userCode, <<>>, f)
                 EXCEPT !.envProgram = env], source))
    /\ UNCHANGED <<heap, arrays, binaries, optimizer>>

DeleteProgram(faults) ==
  \E p \in ProgramHandles(gpgpu), f \in faults :
    /\ Done("deleteProgram", "", <<p>>,
            deleteProgram(Begin(gpgpu, "deleteProgram", "", <<p>>, f), p))
    /\ UNCHANGED <<heap, arrays, binaries, optimizer>>

SetProgram(faults) ==
  \E p \in ProgramHandles(gpgpu), f \in faults :
    /\ Done("setProgram", "", <<p>>,
            setProgram(Begin(gpgpu, "setProgram", "", <<p>>, f), p))
    /\ UNCHANGED <<heap, arrays, binaries, optimizer>>

GetUniformLocation(faults) ==
  \E name \in UniformNames, f \in faults :
    /\ Done("getUniformLocation", name, <<>>,
            getUniformLocation(Begin(gpgpu, "getUniformLocation", name, <<>>, f), name))
    /\ UNCHANGED <<heap, arrays, binaries, optimizer>>

SetInputMatrixTexture(faults) ==
  \E t \in TextureHandles(gpgpu), name \in UniformNames, unit \in TextureUnits,
     f \in faults :
    /\ Done("setInputMatrixTexture", name, <<t, unit>>,
            setInputMatrixTexture(
              Begin(gpgpu, "setInputMatrixTexture", name, <<t, unit>>, f),
              t, name, unit))
    /\ UNCHANGED <<heap, arrays, binaries, optimizer>>

SetOutputMatrixTexture(faults, dims) ==
  \E t \in TextureHandles(gpgpu), rows \in dims, columns \in dims, f \in faults :
    /\ Done("setOutputMatrixTexture", "", <<t, rows, columns>>,
            setOutputMatrixTexture(
              Begin(gpgpu, "setOutputMatrixTexture", "", <<t, rows, columns>>, f),
              t, rows, columns))
    /\ UNCHANGED <<heap, arrays, binaries, optimizer>>

SetOutputPackedMatrixTexture(faults) ==
  \E t \in TextureHandles(gpgpu), rows \in Dims, columns \in Dims, f \in faults :
    /\ Done("setOutputPackedMatrixTexture", "", <<t, rows, columns>>,
            setOutputPackedMatrixTexture(
              Begin(gpgpu, "setOutputPackedMatrixTexture", "", <<t, rows, columns>>, f),
              t, rows, columns))
    /\ UNCHANGED <<heap, arrays, binaries, optimizer>>

SetOutputMatrixWriteRegion(faults, starts, dims) ==
  \E startRow \in starts, numRows \in dims,
     startColumn \in starts, numColumns \in dims, f \in faults :
    /\ Done("setOutputMatrixWriteRegion", "",
            <<startRow, numRows, startColumn, numColumns>>,
            setOutputMatrixWriteRegion(
              Begin(gpgpu, "setOutputMatrixWriteRegion", "",
                    <<startRow, numRows, startColumn, numColumns>>, f),
              startRow, numRows, startColumn, numColumns))
    /\ UNCHANGED <<heap, arrays, binaries, optimizer>>

SetOutputPackedMatrixWriteRegion ==
  /\ Done("setOutputPackedMatrixWriteRegion", "", <<0, 1, 0, 1>>,
          setOutputPackedMatrixWriteRegion(
            Begin(gpgpu, "setOutputPackedMatrixWriteRegion", "", <<0, 1, 0, 1>>, 0),
            0, 1, 0, 1))
  /\ UNCHANGED <<heap, arrays, binaries, optimizer>>

DebugValidate(faults) ==
  \E f \in faults :
    /\ Done("debugValidate", "", <<>>,
            debugValidate(Begin(gpgpu, "debugValidate", "", <<>>, f)))
    /\ UNCHANGED <<heap, arrays, binaries, optimizer>>

ExecuteProgram(faults) ==
  \E f \in faults :
    /\ Done("executeProgram", "", <<>>,
            executeProgram(Begin(gpgpu, "executeProgram", "", <<>>, f)))
    /\ UNCHANGED <<heap, arrays, binaries, optimizer>>

BlockUntilAllProgramsCompleted(faults) ==
  \E f \in faults :
    /\ Done("blockUntilAllProgramsCompleted", "", <<>>,
            blockUntilAllProgramsCompleted(
              Begin(gpgpu, "blockUntilAllProgramsCompleted", "", <<>>, f)))
    /\ UNCHANGED <<heap, arrays, binaries, optimizer>>

(***************************************************************************)
(* The optimizers.  An NDArray is a number; disposals[a] counts the        *)
(* dispose() calls on a.  A TensorArrayMap is a function from nodes to     *)
(* arrays.                                                                 *)
(***************************************************************************)
Nodes == 1..MaxNodes

(* An optimizer over the variable nodes, before its first batch; array n   *)
(* is the data of node n.  RmspropOptimizer extends AdagradOptimizer.      *)
AdagradOptimizer(kind, variableNodes) ==
  [ kind |-> kind, variableNodes |-> variableNodes,
    disposals |-> [a \in 1..(MaxNodes + 3) |-> 0],
    activationArrayMap |-> [n \in Nodes |-> n],
    nodeData |-> [n \in Nodes |-> n],
    cache |-> <<>>, variableGradients |-> <<>>,
    activeScope |-> {}, arraysToKeep |-> {},
    one |-> MaxNodes + 1, m |-> MaxNodes + 2, eps |-> MaxNodes + 3,
    c |-> Null, g |-> Null,
    scalars |-> (MaxNodes + 1)..(MaxNodes + 3),
    batches |-> 0, inBatch |-> FALSE, disposed |-> FALSE ]

(* NDArray.zeros: a new array that no scope tracks. *)
zeros(o) == [o EXCEPT !.disposals = Append(@, 0)]

(* A math operation inside math.scope: n new arrays that the scope tracks. *)
track(o, n) ==
  [o EXCEPT !.disposals = @ \o [i \in 1..n |-> 0],
            !.activeScope = @ \cup (Len(o.disposals) + 1)..(Len(o.disposals) + n)]

keep(o, a) == [o EXCEPT !.arraysToKeep = @ \cup {a}]

NDArray_dispose(o, a) == [o EXCEPT !.disposals[a] = @ + 1]

(* The end of math.scope: every tracked array that was not kept is          *)
(* disposed.                                                               *)
endScope(o) ==
  [o EXCEPT !.disposals = [a \in DOMAIN @ |->
                             IF a \in o.activeScope \ o.arraysToKeep
                               THEN @[a] + 1 ELSE @[a]],
            !.activeScope = {}, !.arraysToKeep = {}]

(* TensorArrayMap.dispose: every array of the map is disposed. *)
TensorArrayMap_dispose(o, map) ==
  [o EXCEPT !.disposals = [a \in DOMAIN @ |->
      @[a] + Cardinality({n \in DOMAIN map : map[n] = a})]]

(* variableNodes.forEach(node => map.set(node.output, NDArray.zeros(..))) *)
RECURSIVE setZeros(_, _, _)
setZeros(o, map, i) ==
  IF i > Len(o.variableNodes) THEN o
  ELSE LET node == o.variableNodes[i]
           o1 == zeros(o)
           a == Len(o1.disposals)
       IN setZeros(IF map = "cache"
                     THEN [o1 EXCEPT !.cache = (node :> a) @@ @]
                     ELSE [o1 EXCEPT !.variableGradients = (node :> a) @@ @],
                   map, i + 1)

(* Scalar.new: a new array that no scope tracks, stored in a field of the  *)
(* optimizer ("c" or "g").                                                 *)
Scalar_new(o, field) ==
  LET o1 == zeros(o)
      a == Len(o1.disposals)
      o2 == [o1 EXCEPT !.scalars = @ \cup {a}]
  IN IF field = "c" THEN [o2 EXCEPT !.c = a] ELSE [o2 EXCEPT !.g = a]

(* A beforeBatch that makes the zero cache on every batch. *)
beforeBatch_AlwaysResets(o) ==
  LET o0 == IF o.c = Null THEN Scalar_new(o, "c") ELSE o
      o1 == setZeros(o0, "variableGradients", 1)
      o2 == setZeros(o1, "cache", 1)
  IN IF o.kind = "rmsprop" THEN Scalar_new(o2, "g") ELSE o2

(* beforeBatch of the optimizer o.kind names: the base class makes c on    *)
(* the first batch (the batch size stays the same) and the zero gradients, *)
(* AdagradOptimizer the zero cache of an empty cache map, RmspropOptimizer *)
(* a new g after them.                                                     *)
beforeBatch(o) ==
  LET o0 == IF o.c = Null THEN Scalar_new(o, "c") ELSE o
      o1 == setZeros(o0, "variableGradients", 1)
      o2 == IF DOMAIN o1.cache = {} THEN setZeros(o1, "cache", 1) ELSE o1
  IN IF o.kind = "rmsprop" THEN Scalar_new(o2, "g") ELSE o2

(* The arrays the math operations of one variable's update create, and     *)
(* which of them is the new cache; the new variable is the last.           *)
(* adagrad: multiply, add (cache), sqrt, add, divide, scaledArrayAdd;      *)
(* rmsprop: multiply, sub, scaledArrayAdd (cache), add, sqrt, divide,      *)
(* scaledArrayAdd.                                                         *)
Created(kind) == IF kind = "adagrad" THEN 6 ELSE 7
CacheAt(kind) == IF kind = "adagrad" THEN 2 ELSE 3

(* An update that does not keep what it stores. *)
updateVariable_NoKeep(o, node) ==
  LET oldVariable == o.activationArrayMap[node]
      oldCache == o.cache[node]
      cache == Len(o.disposals) + CacheAt(o.kind)
      variable == Len(o.disposals) + Created(o.kind)
      o1 == track(o, Created(o.kind))
      o2 == [o1 EXCEPT !.cache = (node :> cache) @@ @]
      o3 == [o2 EXCEPT !.activationArrayMap[node] = variable]
      o4 == [o3 EXCEPT !.nodeData[node] = variable]
  IN NDArray_dispose(NDArray_dispose(o4, oldVariable), oldCache)

(* The body of variableNodes.forEach in afterBatch. *)
updateVariable(o, node) ==
  LET oldVariable == o.activationArrayMap[node]
      oldCache == o.cache[node]
      cache == Len(o.disposals) + CacheAt(o.kind)
      variable == Len(o.disposals) + Created(o.kind)
      o1 == track(o, Created(o.kind))
      o2 == [keep(o1, cache) EXCEPT !.cache = (node :> cache) @@ @]
      o3 == [keep(o2, variable) EXCEPT !.activationArrayMap[node] = variable]
      o4 == [o3 EXCEPT !.nodeData[node] = variable]
  IN NDArray_dispose(NDArray_dispose(o4, oldVariable), oldCache)

RECURSIVE updateVariables(_, _)
updateVariables(o, i) ==
  IF i > Len(o.variableNodes) THEN o
  ELSE updateVariables(updateVariable(o, o.variableNodes[i]), i + 1)

afterBatch(o) ==
  LET o1 == endScope(updateVariables(o, 1))
  IN [TensorArrayMap_dispose(o1, o1.variableGradients)
        EXCEPT !.variableGradients = <<>>]

(* The caller's arrays: sizes, and the texture shapes an array of a size    *)
(* can be given.                                                           *)
Sizes == 1..MaxSize
TexShapes(n) == {<<n, 1>>, <<1, n>>}
InputLists(lengths) ==
  UNION { [1..n -> DOMAIN arrays] : n \in lengths }
Operands(inputs) == [i \in DOMAIN inputs |-> arrays[inputs[i]]]

(* A program of n operands (the GPGPUProgram of lines 141-147). *)
Program(n) ==
  [variableNames |-> SubSeq(<<"A", "B">>, 1, n), userCode |-> "op",
   supportsBroadcasting |-> FALSE]

(* NDArray.make on a texture of the context. *)
MakeNDArray(faults, renderables, sizes) ==
  \E n \in sizes, f \in faults, renderable \in renderables :
    \E t \in TexShapes(n) :
      LET r == createMatrixTexture(
                 [Begin(gpgpu, "createMatrixTexture", "", <<t[1], t[2]>>, f)
                    EXCEPT !.envRenderable = renderable], t[1], t[2])
      IN /\ gpgpu.glNextTexture <= MaxTextures
         /\ Done("createMatrixTexture", "", <<t[1], t[2]>>, r)
         /\ IF r.thrown = NoError
              THEN /\ heap' = heap \o << <<n>>, t >>
                   /\ arrays' = Append(arrays,
                                       [shape |-> Len(heap) + 1,
                                        textureShapeRC |-> Len(heap) + 2,
                                        texture |-> r.ret])
              ELSE UNCHANGED <<heap, arrays>>
         /\ UNCHANGED <<binaries, optimizer>>

(* x.shape[0] = v: the caller writes into the array x.shape refers to. *)
SetShapeInPlace ==
  \E a \in DOMAIN arrays, v \in Sizes :
    /\ heap[arrays[a].shape][1] # v
    /\ heap' = [heap EXCEPT ![arrays[a].shape][1] = v]
    /\ last' = [op |-> "shape[0]=", name |-> "", args |-> <<a, v>>,
                thrown |-> NoError, ret |-> Null]
    /\ gpgpu' = Reset(gpgpu, 0)
    /\ UNCHANGED <<arrays, binaries, optimizer>>

(* x.shape = [v]: the caller gives x another array as its shape. *)
AssignShape ==
  \E a \in DOMAIN arrays, v \in Sizes :
    /\ Len(heap) < 2 * Len(arrays) + MaxAssign
    /\ heap' = Append(heap, <<v>>)
    /\ arrays' = [arrays EXCEPT ![a].shape = Len(heap) + 1]
    /\ last' = [op |-> "shape=", name |-> "", args |-> <<a, v>>,
                thrown |-> NoError, ret |-> Null]
    /\ gpgpu' = Reset(gpgpu, 0)
    /\ UNCHANGED <<binaries, optimizer>>

CompileProgram(faults, envs, lengths, most) ==
  \E inputs \in InputLists(lengths), output \in DOMAIN arrays,
     f \in faults, env \in envs :
    LET r == compileProgram([Reset(gpgpu, f) EXCEPT !.envProgram = env], heap,
                            Program(Len(inputs)), Operands(inputs), arrays[output])
    IN /\ gpgpu.glNextProgram <= MaxPrograms
       /\ Len(binaries) < most
       /\ gpgpu' = End(r.c)
       /\ last' = [op |-> "compileProgram", name |-> "", args |-> <<inputs, output>>,
                   thrown |-> r.thrown, ret |-> Null]
       /\ binaries' = IF r.thrown = NoError THEN Append(binaries, r.ret) ELSE binaries
       /\ UNCHANGED <<heap, arrays, optimizer>>

Hooks == {"none", "A"}

RunProgram(faults, lengths, hooks) ==
  \E b \in DOMAIN binaries, inputs \in InputLists(lengths),
     output \in DOMAIN arrays, hook \in hooks, f \in faults :
    LET r == runProgram(Reset(gpgpu, f), heap, binaries[b], Operands(inputs),
                        arrays[output], hook)
    IN /\ gpgpu' = End(r.c)
       /\ last' = [op |-> "runProgram", name |-> hook,
                   args |-> <<b, inputs, output>>,
                   thrown |-> r.thrown, ret |-> Null]
       /\ UNCHANGED <<heap, arrays, binaries, optimizer>>

(* A program whose key is asked for: its constructor's name, its flag and  *)
(* its params.                                                             *)
KeyProgram(broadcast, params) ==
  [constructorName |-> "Program", variableNames |-> <<"A", "B">>,
   userCode |-> "op", supportsBroadcasting |-> broadcast, params |-> params]

(* The same program without the optional supportsBroadcasting. *)
WithoutFlag(program) ==
  [f \in DOMAIN program \ {"supportsBroadcasting"} |-> program[f]]

KeySizes == {1, MaxKeyDim}

MakeShaderKey(lengths) ==
  \E inputs \in InputLists(lengths), output \in DOMAIN arrays,
     broadcast \in BOOLEAN, given \in BOOLEAN, params \in {<<>>, <<MaxKeyDim>>} :
    /\ given \/ ~broadcast
    /\ gpgpu' = Reset(gpgpu, 0)
    /\ last' = [op |-> "makeShaderKey", name |-> IF given THEN "" ELSE "absent",
                args |-> <<inputs, output, broadcast, params>>,
                thrown |-> NoError,
                ret |-> makeShaderKey(heap,
                                      IF given
                                        THEN KeyProgram(broadcast, params)
                                        ELSE WithoutFlag(KeyProgram(broadcast, params)),
                                      Operands(inputs), arrays[output])]
    /\ UNCHANGED <<heap, arrays, binaries, optimizer>>

BeforeBatch ==
  /\ ~optimizer.inBatch
  /\ ~optimizer.disposed
  /\ optimizer.batches < MaxBatches
  /\ optimizer' = [beforeBatch(optimizer) EXCEPT !.inBatch = TRUE]
  /\ last' = [op |-> "beforeBatch", name |-> optimizer.kind, args |-> <<>>,
              thrown |-> NoError, ret |-> Null]
  /\ gpgpu' = Reset(gpgpu, 0)
  /\ UNCHANGED <<heap, arrays, binaries>>

AfterBatch ==
  /\ optimizer.inBatch
  /\ optimizer' = [afterBatch(optimizer) EXCEPT !.inBatch = FALSE,
                                                !.batches = @ + 1]
  /\ last' = [op |-> "afterBatch", name |-> optimizer.kind, args |-> <<>>,
              thrown |-> NoError, ret |-> Null]
  /\ gpgpu' = Reset(gpgpu, 0)
  /\ UNCHANGED <<heap, arrays, binaries>>

(* dispose of the optimizer o.kind names: RmspropOptimizer.dispose         *)
(* disposes c and m if they are there, one and the cache map;              *)
(* AdagradOptimizer.dispose calls the base class (c if it is there, one),  *)
(* then disposes m, eps and the cache map.                                 *)
Optimizer_dispose(o) ==
  LET o1 == IF o.c # Null THEN NDArray_dispose(o, o.c) ELSE o
  IN IF o.kind = "rmsprop"
       THEN LET o2 == IF o1.m # Null THEN NDArray_dispose(o1, o1.m) ELSE o1
                o3 == NDArray_dispose(o2, o2.one)
            IN TensorArrayMap_dispose(o3, o3.cache)
       ELSE LET o2 == NDArray_dispose(o1, o1.one)
                o3 == NDArray_dispose(o2, o2.m)
                o4 == NDArray_dispose(o3, o3.eps)
            IN TensorArrayMap_dispose(o4, o4.cache)

(* optimizer.dispose() between two batches, once. *)
OptimizerDispose ==
  /\ ~optimizer.inBatch
  /\ ~optimizer.disposed
  /\ optimizer' = [Optimizer_dispose(optimizer) EXCEPT !.disposed = TRUE]
  /\ last' = [op |-> "optimizer.dispose", name |-> optimizer.kind,
              args |-> <<>>, thrown |-> NoError, ret |-> Null]
  /\ gpgpu' = Reset(gpgpu, 0)
  /\ UNCHANGED <<heap, arrays, binaries>>

NoCall == [op |-> "constructor", name |-> "", args |-> <<>>,
           thrown |-> NoError, ret |-> Null]

Init ==
  /\ gpgpu = GPGPUContext
  /\ last = NoCall
  /\ heap = <<>>
  /\ arrays = <<>>
  /\ binaries = <<>>
  /\ optimizer = AdagradOptimizer("adagrad", <<>>)

(***************************************************************************)
(* Specifications of one concern each.  The state of the context is a      *)
(* product of independent parts (programs, textures, bindings, faults of   *)
(* the WebGL implementation), so each specification gives the caller the   *)
(* operations, and the environment the choices, its claims are about.      *)
(***************************************************************************)
NoFault == {0}
Renderable == {TRUE}
LogSource ==
  makeShader(<<[name |-> "A", shapeInfo |-> ScalarInfo]>>, ScalarInfo, "log", FALSE)

(* Disposal: a caller that builds up bindings, disposes, and then tries    *)
(* every operation on the disposed context.                                *)
AnyCall ==
  \/ Dispose(NoFault)
  \/ EnableAutomaticDebugValidation
  \/ CreateMatrixTexture(NoFault, Renderable)
  \/ CreatePackedMatrixTexture(NoFault, Renderable)
  \/ UploadPixelDataToTexture(NoFault)
  \/ DeleteMatrixTexture(NoFault)
  \/ UploadMatrixToTexture(NoFault)
  \/ UploadMatrixToPackedTexture(NoFault)
  \/ DownloadMatrixFromTexture(NoFault)
  \/ DownloadMatrixFromPackedTexture(NoFault)
  \/ CreateProgram(NoFault, {LogSource}, {"valid"})
  \/ DeleteProgram(NoFault)
  \/ SetProgram(NoFault)
  \/ GetUniformLocation(NoFault)
  \/ SetInputMatrixTexture(NoFault)
  \/ SetOutputMatrixTexture(NoFault, Dims)
  \/ SetOutputPackedMatrixTexture(NoFault)
  \/ SetOutputMatrixWriteRegion(NoFault, Starts, Dims)
  \/ SetOutputPackedMatrixWriteRegion
  \/ DebugValidate(NoFault)
  \/ ExecuteProgram(NoFault)
  \/ BlockUntilAllProgramsCompleted(NoFault)

Next ==
  \/ (~gpgpu.disposed /\ Dispose(0..MaxFault))
  \/ (~gpgpu.disposed /\ EnableAutomaticDebugValidation)
  \/ (~gpgpu.disposed /\ CreateProgram(NoFault, {LogSource}, {"valid"}))
  \/ (~gpgpu.disposed /\ SetProgram(NoFault))
  \/ (~gpgpu.disposed /\ CreateMatrixTexture(NoFault, Renderable))
  \/ (~gpgpu.disposed /\ SetOutputMatrixTexture(NoFault, Dims))
  \/ (gpgpu.disposed /\ AnyCall)

Spec == Init /\ [][Next]_vars

(* The bound-program slot. *)
NextProgram ==
  \/ CreateProgram(NoFault, {LogSource}, {"valid"})
  \/ DeleteProgram(NoFault)
  \/ SetProgram(NoFault)
  \/ GetUniformLocation(NoFault)
  \/ SetInputMatrixTexture(NoFault)
  \/ ExecuteProgram(NoFault)
  \/ EnableAutomaticDebugValidation
  \/ CreateMatrixTexture(NoFault, Renderable)
  \/ SetOutputMatrixTexture(NoFault, Dims)
  \/ Dispose(NoFault)

SpecProgram == Init /\ [][NextProgram]_vars

(* The bound-output slot and the framebuffer. *)
NextTexture ==
  \/ CreateMatrixTexture(NoFault, Renderable)
  \/ CreatePackedMatrixTexture(NoFault, Renderable)
  \/ DeleteMatrixTexture(NoFault)
  \/ SetOutputMatrixTexture(NoFault, Dims)
  \/ SetOutputPackedMatrixTexture(NoFault)
  \/ DownloadMatrixFromTexture(NoFault)
  \/ EnableAutomaticDebugValidation
  \/ CreateProgram(NoFault, {LogSource}, {"valid"})
  \/ SetProgram(NoFault)
  \/ Dispose(NoFault)

SpecTexture == Init /\ [][NextTexture]_vars

(* A compiled binary run on the caller's arrays. *)
NextMath ==
  \/ MakeNDArray(NoFault, Renderable, Sizes)
  \/ CompileProgram(NoFault, {"valid"}, {1, 2}, MaxBinaries)
  \/ RunProgram(NoFault, {0, 1, 2}, Hooks)

SpecMath == Init /\ [][NextMath]_vars

(* A caller that changes the shapes of its arrays after compiling. *)
NextShape ==
  \/ MakeNDArray(NoFault, Renderable, {1})
  \/ SetShapeInPlace
  \/ AssignShape
  \/ CompileProgram(NoFault, {"valid"}, {1}, MaxBinaries)
  \/ RunProgram(NoFault, {1}, {"none"})

SpecShape == Init /\ [][NextShape]_vars

(* A caller that asks for the keys of programs on its arrays. *)
NextKey ==
  \/ MakeNDArray(NoFault, Renderable, KeySizes)
  \/ SetShapeInPlace
  \/ MakeShaderKey({0, 1, 2})

SpecKey == Init /\ [][NextKey]_vars

(* A caller that compiles again for the arrays it has compiled for. *)
NextCompile ==
  \/ MakeNDArray(NoFault, Renderable, {1})
  \/ CompileProgram(NoFault, {"valid"}, {1}, MaxPrograms)
  \/ RunProgram(NoFault, {1}, {"none"})

SpecCompile == Init /\ [][NextCompile]_vars

(* Every operation, on a context that holds at most one texture and one    *)
(* program.                                                                *)
NextSync ==
  \/ Dispose(NoFault)
  \/ EnableAutomaticDebugValidation
  \/ (gpgpu.glNextTexture = 1 /\ CreateMatrixTexture(NoFault, Renderable))
  \/ (gpgpu.glNextTexture = 1 /\ CreatePackedMatrixTexture(NoFault, Renderable))
  \/ UploadPixelDataToTexture(NoFault)
  \/ DeleteMatrixTexture(NoFault)
  \/ UploadMatrixToTexture(NoFault)
  \/ UploadMatrixToPackedTexture(NoFault)
  \/ DownloadMatrixFromTexture(NoFault)
  \/ DownloadMatrixFromPackedTexture(NoFault)
  \/ (gpgpu.glNextProgram = 1 /\ CreateProgram(NoFault, {LogSource}, {"valid"}))
  \/ DeleteProgram(NoFault)
  \/ SetProgram(NoFault)
  \/ GetUniformLocation(NoFault)
  \/ SetInputMatrixTexture(NoFault)
  \/ SetOutputMatrixTexture(NoFault, Dims)
  \/ SetOutputPackedMatrixTexture(NoFault)
  \/ SetOutputMatrixWriteRegion(NoFault, Starts, Dims)
  \/ SetOutputPackedMatrixWriteRegion
  \/ DebugValidate(NoFault)
  \/ ExecuteProgram(NoFault)
  \/ BlockUntilAllProgramsCompleted(NoFault)

SpecSync == Init /\ [][NextSync]_vars

(* Outputs and write regions whose rows and columns differ. *)
NextOutput ==
  \/ CreateMatrixTexture(NoFault, {TRUE, FALSE})
  \/ EnableAutomaticDebugValidation
  \/ SetOutputMatrixTexture(NoFault, 1..MaxExtent)
  \/ SetOutputMatrixWriteRegion(NoFault, 0..(MaxExtent - 1), 1..MaxExtent)
  \/ Dispose(NoFault)

SpecOutput == Init /\ [][NextOutput]_vars

(* Uploads and downloads, with outputs bound and a program drawing. *)
NextData ==
  \/ CreateMatrixTexture(NoFault, Renderable)
  \/ UploadMatrixToTexture(NoFault)
  \/ UploadMatrixToPackedTexture(NoFault)
  \/ DownloadMatrixFromTexture(NoFault)
  \/ DownloadMatrixFromPackedTexture(NoFault)
  \/ SetOutputMatrixTexture(NoFault, Dims)
  \/ (gpgpu.glNextProgram = 1 /\ CreateProgram(NoFault, {LogSource}, {"valid"}))
  \/ SetProgram(NoFault)
  \/ ExecuteProgram(NoFault)

SpecData == Init /\ [][NextData]_vars

(* Batches of an optimizer of either kind over a list of variable nodes. *)
InitTrain ==
  /\ gpgpu = GPGPUContext
  /\ last = NoCall
  /\ heap = <<>>
  /\ arrays = <<>>
  /\ binaries = <<>>
  /\ \E kind \in {"adagrad", "rmsprop"}, n \in 1..MaxNodes :
       \E variableNodes \in [1..n -> Nodes] :
         optimizer = AdagradOptimizer(kind, variableNodes)

NextTrain == BeforeBatch \/ AfterBatch \/ OptimizerDispose

SpecTrain == InitTrain /\ [][NextTrain]_vars

(* Compile, run and tear down, as the tests do. *)
NextTeardown ==
  \/ MakeNDArray(NoFault, Renderable, {1})
  \/ CompileProgram(NoFault, {"valid"}, {1}, MaxBinaries)
  \/ RunProgram(NoFault, {1}, {"none"})
  \/ DeleteMatrixTexture(NoFault)
  \/ DeleteProgram(NoFault)
  \/ Dispose(NoFault)

SpecTeardown == Init /\ [][NextTeardown]_vars

(* Outputs on textures that may not be renderable and a program that may   *)
(* not validate, with debug validation.                                    *)
NextAttach ==
  \/ CreateMatrixTexture(NoFault, {TRUE, FALSE})
  \/ EnableAutomaticDebugValidation
  \/ SetOutputMatrixTexture(NoFault, Dims)
  \/ SetOutputPackedMatrixTexture(NoFault)
  \/ DeleteMatrixTexture(NoFault)
  \/ DownloadMatrixFromTexture(NoFault)
  \/ (gpgpu.glNextProgram = 1 /\ CreateProgram(NoFault, {LogSource}, {"valid", "invalid"}))
  \/ SetProgram(NoFault)
  \/ ExecuteProgram(NoFault)

SpecAttach == Init /\ [][NextAttach]_vars

(***************************************************************************)
(* The claims.                                                             *)
(***************************************************************************)

(* The fields of the GPGPUContext object (lines 23-33). *)
Fields(c) ==
  [ program |-> c.program, outputTexture |-> c.outputTexture,
    disposed |-> c.disposed, autoDebugValidate |-> c.autoDebugValidate,
    vertexBuffer |-> c.vertexBuffer, indexBuffer |-> c.indexBuffer,
    framebuffer |-> c.framebuffer ]

Logged(c, fn) == \E i \in DOMAIN c.glLog : c.glLog[i].fn = fn

C1Operations ==
  { "createProgram", "deleteProgram", "setProgram", "createMatrixTexture",
    "createPackedMatrixTexture", "deleteMatrixTexture",
    "uploadMatrixToTexture", "uploadMatrixToPackedTexture",
    "uploadPixelDataToTexture",
    "downloadMatrixFromTexture", "downloadMatrixFromPackedTexture",
    "setOutputMatrixTexture", "setOutputPackedMatrixTexture",
    "setOutputMatrixWriteRegion", "setInputMatrixTexture",
    "getUniformLocation", "executeProgram", "blockUntilAllProgramsCompleted",
    "debugValidate", "enableAutomaticDebugValidation", "dispose" }

(* C1: once the context is disposed, each of the listed operations throws, *)
(* issues no WebGL call and leaves the fields of the context unchanged.    *)
C1_DisposedRejectsEveryOperation ==
  [][ (gpgpu.disposed /\ last'.op \in C1Operations)
        => /\ last'.thrown # NoError
           /\ gpgpu'.glLog = <<>>
           /\ Fields(gpgpu') = Fields(gpgpu) ]_vars

(* C1, for the operations that do check: all but debugValidate and         *)
(* enableAutomaticDebugValidation throw the disposed error untouched.      *)
C1_GuardedOperationsReject ==
  [][ (gpgpu.disposed
         /\ last'.op \in C1Operations
                           \ {"debugValidate", "enableAutomaticDebugValidation"})
        => /\ last'.thrown = ErrDisposed
           /\ gpgpu'.glLog = <<>>
           /\ Fields(gpgpu') = Fields(gpgpu) ]_vars

C1_Witness ==
  /\ gpgpu.disposed
  /\ last.op = "enableAutomaticDebugValidation"
  /\ last.thrown = NoError
  /\ gpgpu.autoDebugValidate

(* C2: Disposed is terminal.  From a disposed context no step leads to a   *)
(* context that is not disposed, and a dispose() throws without a WebGL    *)
(* call, so the framebuffer and the buffers are not deleted a second time. *)
C2_DisposedIsTerminal ==
  [][ gpgpu.disposed
        => /\ gpgpu'.disposed
           /\ (last'.op = "dispose"
                 => /\ last'.thrown = ErrDisposed
                    /\ gpgpu'.glLog = <<>>) ]_vars

C2_Witness ==
  /\ gpgpu.disposed
  /\ last.op = "dispose"
  /\ last.thrown = ErrDisposed
  /\ ~gpgpu.framebuffer /\ ~gpgpu.vertexBuffer /\ ~gpgpu.indexBuffer

(* C6: a dispose() of a context that is not disposed warns once per bound  *)
(* slot (program first), and fails only when WebGL reports an error, never *)
(* for what is bound; unless WebGL reports one, it deletes the framebuffer *)
(* and both buffers and marks the context disposed.  So whenever a context *)
(* becomes disposed with a slot still set, the diagnostic for it is there. *)
ExpectedWarnings(c) ==
  (IF c.program # Null THEN <<WarnProgram>> ELSE <<>>)
    \o (IF c.outputTexture # Null THEN <<WarnOutput>> ELSE <<>>)

C6_DisposeWarnsAndReleases ==
  (last.op = "dispose" /\ last.thrown # ErrDisposed)
    => /\ gpgpu.warnings = ExpectedWarnings(gpgpu)
       /\ last.thrown \in {NoError, ErrWebGL}
       /\ (last.thrown = ErrWebGL => gpgpu.glDebugErrorChecking)
       /\ (last.thrown = NoError
             => /\ gpgpu.disposed
                /\ ~gpgpu.framebuffer /\ ~gpgpu.vertexBuffer /\ ~gpgpu.indexBuffer
                /\ Len(gpgpu.glLog) = 7)

C6_Witness ==
  /\ last.op = "dispose" /\ last.thrown = NoError
  /\ gpgpu.disposed
  /\ gpgpu.program # Null /\ gpgpu.outputTexture # Null
  /\ gpgpu.warnings = <<WarnProgram, WarnOutput>>
  /\ ~gpgpu.framebuffer /\ ~gpgpu.vertexBuffer /\ ~gpgpu.indexBuffer

(* What a call can change: the context without the logs of the call. *)
State(c) == [c EXCEPT !.calls = <<>>, !.glLog = <<>>, !.warnings = <<>>]

NeedsProgram == {"executeProgram", "setInputMatrixTexture", "getUniformLocation"}

(* C7: with the bound-program slot empty, executeProgram,                  *)
(* setInputMatrixTexture and getUniformLocation throw the no-program error,*)
(* issue no WebGL call and change nothing; and the slot is filled only by  *)
(* a setProgram with a program that is not null.                           *)
C7_NoProgramNoExecution ==
  [][ /\ (last'.op \in NeedsProgram /\ gpgpu.program = Null /\ ~gpgpu.disposed)
          => /\ last'.thrown = ErrNoProgram
             /\ gpgpu'.glLog = <<>>
             /\ State(gpgpu') = State(gpgpu)
      /\ (gpgpu.program = Null /\ gpgpu'.program # Null)
          => (last'.op = "setProgram" /\ last'.args[1] # Null)
      /\ (last'.op \in NeedsProgram /\ last'.thrown = NoError)
          => gpgpu'.program # Null ]_vars

(* The slot was emptied by a deleteProgram of the bound program (WebGL     *)
(* still has the deleted program current), and executeProgram then threw.  *)
C7_Witness ==
  /\ last.op = "executeProgram"
  /\ last.thrown = ErrNoProgram
  /\ gpgpu.program = Null
  /\ gpgpu.glCurrentProgram # Null
  /\ gpgpu.glCurrentProgram \notin gpgpu.glPrograms

(* C8: on a context that is not disposed, deleteProgram(p) empties the     *)
(* bound-program slot when p is the bound program and leaves it as it is   *)
(* otherwise; the bound output and the disposed flag stay as they are.     *)
C8_DeleteProgramFrame ==
  [][ (last'.op = "deleteProgram" /\ ~gpgpu.disposed)
        => /\ gpgpu'.program =
                IF last'.args[1] = gpgpu.program THEN Null ELSE gpgpu.program
           /\ gpgpu'.outputTexture = gpgpu.outputTexture
           /\ gpgpu'.disposed = gpgpu.disposed ]_vars

C8_Witness ==
  /\ last.op = "deleteProgram"
  /\ last.thrown = NoError
  /\ last.args[1] # Null
  /\ gpgpu.program # Null
  /\ gpgpu.program # last.args[1]
  /\ gpgpu.outputTexture # Null

(* C9: a deleteMatrixTexture(t) that returns has deleted t; it has         *)
(* detached the framebuffer's colour attachment and emptied the            *)
(* bound-output slot when t was the bound output, and left both as they    *)
(* were otherwise; the bound program is as it was.                         *)
C9_DeleteMatrixTextureFrame ==
  [][ (last'.op = "deleteMatrixTexture" /\ last'.thrown = NoError)
        => /\ IF last'.args[1] = gpgpu.outputTexture
                THEN /\ gpgpu'.outputTexture = Null
                     /\ gpgpu'.glFbAttachment = Null
                ELSE /\ gpgpu'.outputTexture = gpgpu.outputTexture
                     /\ gpgpu'.glFbAttachment = gpgpu.glFbAttachment
           /\ gpgpu'.program = gpgpu.program
           /\ last'.args[1] \notin gpgpu'.glTextures
           /\ Logged(gpgpu', "deleteTexture") ]_vars

(* The other texture was deleted while an output and a program are bound. *)
C9_Witness ==
  /\ last.op = "deleteMatrixTexture"
  /\ last.thrown = NoError
  /\ gpgpu.outputTexture # Null
  /\ gpgpu.outputTexture # last.args[1]
  /\ gpgpu.glFbAttachment = gpgpu.outputTexture
  /\ gpgpu.program # Null

(* The arguments of the runProgram call that last records. *)
RunBinary == binaries[last.args[1]]
RunInputs == Operands(last.args[2])
RunOutput == arrays[last.args[3]]

ShapeErrors == {ErrInputCount, ErrShapes, ErrTexShapes}

(* The shapes an array has now. *)
CurrentShapeInfo(x) ==
  [logicalShape |-> heap[x.shape], texShape |-> heap[x.textureShapeRC]]

ShapesMatch(binary, inputs, output) ==
  /\ Len(inputs) = Len(binary.inShapeInfos)
  /\ \A i \in DOMAIN inputs :
       CurrentShapeInfo(inputs[i]) = ReadShapeInfo(heap, binary.inShapeInfos[i])
  /\ CurrentShapeInfo(output) = ReadShapeInfo(heap, binary.outShapeInfo)

(* C3: a runProgram issues the draw only if the binary has as many         *)
(* captured inputs as it is given and the logical and the texture shape of *)
(* every input and of the output equal the captured ones; if they do not,  *)
(* it throws one of the shape errors and draws nothing; if they do, it     *)
(* throws no shape error.                                                  *)
C3_RunsOnlyOnCapturedShapes ==
  (last.op = "runProgram")
    => /\ Logged(gpgpu, "drawElements") => ShapesMatch(RunBinary, RunInputs, RunOutput)
       /\ ~ShapesMatch(RunBinary, RunInputs, RunOutput)
            => (last.thrown \in ShapeErrors /\ ~Logged(gpgpu, "drawElements"))
       /\ ShapesMatch(RunBinary, RunInputs, RunOutput) => last.thrown \notin ShapeErrors

(* Every logical shape agrees and a texture shape does not. *)
C3_Witness ==
  /\ last.op = "runProgram"
  /\ last.thrown = ErrTexShapes
  /\ Len(RunInputs) = 2
  /\ \A i \in DOMAIN RunInputs :
       heap[RunInputs[i].shape] = heap[RunBinary.inShapeInfos[i].logicalShape]
  /\ ~Logged(gpgpu, "drawElements")

(* C4: a runProgram that throws a shape error has called nothing on the    *)
(* context and nothing on WebGL, and the context, the arrays and the       *)
(* binaries are as they were before it; runProgram reads nothing else, so  *)
(* a following call finds what it would have found without the failed one. *)
C4_FailedValidationChangesNothing ==
  [][ (last'.op = "runProgram" /\ last'.thrown \in ShapeErrors)
        => /\ State(gpgpu') = State(gpgpu)
           /\ gpgpu'.calls = <<>>
           /\ gpgpu'.glLog = <<>>
           /\ <<heap', arrays', binaries'>> = <<heap, arrays, binaries>> ]_vars

(* A run failed validation on a context that an earlier run left bound to  *)
(* a program and to an output other than the output of the failed run.     *)
C4_Witness ==
  /\ last.op = "runProgram"
  /\ last.thrown \in ShapeErrors
  /\ gpgpu.program # Null
  /\ gpgpu.outputTexture # Null
  /\ gpgpu.outputTexture # RunOutput.texture
  /\ gpgpu.glTextureUnits[1] # Null

(* The calls of a successful runProgram, in order. *)
ExpectedCalls(binary, inputs, output, hook) ==
  << Call("setOutputMatrixTexture", "",
          <<output.texture, heap[output.textureShapeRC][1],
            heap[output.textureShapeRC][2]>>),
     Call("setProgram", "", <<binary.webGLProgram>>) >>
  \o [i \in 1..Len(inputs) |->
        Call("setInputMatrixTexture", binary.program.variableNames[i],
             <<inputs[i].texture, i - 1>>)]
  \o (IF hook = "none" THEN <<>> ELSE <<Call("customSetup", hook, <<>>)>>)
  \o <<Call("executeProgram", "", <<>>)>>

(* C5: the calls of a runProgram that returns are setOutputMatrixTexture   *)
(* on the output's texture, setProgram on the binary's program,            *)
(* setInputMatrixTexture for each input in index order with the name       *)
(* variableNames[i] and the unit i, the hook once if there is one, and     *)
(* executeProgram, once each and in this order; the draw is its last       *)
(* WebGL call and its only draw.                                           *)
(* A runProgram that throws after validation has made the first calls of   *)
(* the same sequence.                                                      *)
C5_RunProgramCallOrder ==
  (last.op = "runProgram" /\ last.thrown \notin ShapeErrors)
    => LET expected == ExpectedCalls(RunBinary, RunInputs, RunOutput, last.name)
       IN /\ Len(gpgpu.calls) <= Len(expected)
          /\ gpgpu.calls = SubSeq(expected, 1, Len(gpgpu.calls))
          /\ (last.thrown = NoError)
               => /\ gpgpu.calls = expected
                  /\ gpgpu.glLog[Len(gpgpu.glLog)].fn = "drawElements"
                  /\ Cardinality({i \in DOMAIN gpgpu.glLog :
                                   gpgpu.glLog[i].fn = "drawElements"}) = 1

C5_Witness ==
  /\ last.op = "runProgram"
  /\ last.thrown = NoError
  /\ Len(RunInputs) = 2
  /\ last.name # "none"
  /\ Len(gpgpu.calls) = 6

(* C10: the shapes a binary refers to are the shapes its source was        *)
(* generated for, whatever the caller has done to the arrays since.        *)
C10_BinaryIsSnapshot ==
  \A b \in DOMAIN binaries :
    /\ \A i \in DOMAIN binaries[b].inShapeInfos :
         ReadShapeInfo(heap, binaries[b].inShapeInfos[i])
           = binaries[b].source.inputInfos[i].shapeInfo
    /\ ReadShapeInfo(heap, binaries[b].outShapeInfo) = binaries[b].source.outShapeInfo

(* The arguments of the makeShaderKey call that last records. *)
KeyInputs == Operands(last.args[1])
KeyOutput == arrays[last.args[2]]
KeyDescriptor ==
  IF last.name = "absent"
    THEN WithoutFlag(KeyProgram(last.args[3], last.args[4]))
    ELSE KeyProgram(last.args[3], last.args[4])
KeyOf(h) == makeShaderKey(h, KeyDescriptor, KeyInputs, KeyOutput)

(* The arrays of numbers the operands of the call refer to. *)
KeyShapes ==
  {KeyInputs[i].shape : i \in DOMAIN KeyInputs}
    \cup {KeyInputs[i].textureShapeRC : i \in DOMAIN KeyInputs}
    \cup {KeyOutput.shape, KeyOutput.textureShapeRC}

(* C11: the key makeShaderKey returned is the key of its arguments as they *)
(* are after the call, and the key of arguments that differ from them in   *)
(* one dimension of one logical or texture shape is another key; so is the *)
(* key with the other broadcasting flag.                                   *)
C11_KeyDeterminedByShapes ==
  (last.op = "makeShaderKey")
    => /\ last.ret = KeyOf(heap)
       /\ \A shape \in KeyShapes :
            \A d \in DOMAIN heap[shape] :
              \A v \in (1..MaxKeyDim) \ {heap[shape][d]} :
                KeyOf([heap EXCEPT ![shape][d] = v]) # last.ret
       /\ makeShaderKey(heap, KeyProgram(~last.args[3], last.args[4]),
                        KeyInputs, KeyOutput) # last.ret

(* A key of two inputs, of a shape whose dimension has two digits. *)
C11_Witness ==
  /\ last.op = "makeShaderKey"
  /\ Len(KeyInputs) = 2
  /\ \E i \in DOMAIN KeyInputs : heap[KeyInputs[i].shape] = <<MaxKeyDim>>
  /\ heap[KeyOutput.textureShapeRC] = <<1, MaxKeyDim>>
  /\ last.args[4] # <<>>

(* C12: a compileProgram generates the source once and calls createProgram *)
(* once, whatever has been compiled before; the binary it returns holds a  *)
(* program that WebGL created in this call and that no earlier binary      *)
(* holds; the bound program and the bound output are as they were.         *)
C12_CompileProgramAlwaysCompiles ==
  [][ (last'.op = "compileProgram")
        => /\ gpgpu'.calls = << Call("makeShader", "op", <<>>),
                                Call("createProgram", "op", <<>>) >>
           /\ gpgpu'.program = gpgpu.program
           /\ gpgpu'.outputTexture = gpgpu.outputTexture
           /\ gpgpu'.glFbAttachment = gpgpu.glFbAttachment
           /\ (last'.thrown = NoError)
                => /\ Len(binaries') = Len(binaries) + 1
                   /\ SubSeq(binaries', 1, Len(binaries)) = binaries
                   /\ LET new == binaries'[Len(binaries')].webGLProgram
                      IN /\ new \notin gpgpu.glPrograms
                         /\ new \in gpgpu'.glPrograms
                         /\ \A b \in DOMAIN binaries : binaries[b].webGLProgram # new
                   /\ Cardinality({i \in DOMAIN gpgpu'.glLog :
                                     gpgpu'.glLog[i].fn = "createProgram"}) = 1 ]_vars

(* A second compileProgram for the same source, on a context bound to the  *)
(* program of the first and to an output.                                  *)
C12_Witness ==
  /\ last.op = "compileProgram"
  /\ last.thrown = NoError
  /\ Len(binaries) = 2
  /\ binaries[1].source = binaries[2].source
  /\ binaries[1].webGLProgram # binaries[2].webGLProgram
  /\ gpgpu.program = binaries[1].webGLProgram
  /\ gpgpu.outputTexture # Null

StateChangingCalls ==
  {"createProgram", "deleteProgram", "setProgram", "setOutputMatrixTexture",
   "deleteMatrixTexture", "executeProgram", "downloadMatrixFromTexture",
   "downloadMatrixFromPackedTexture"}

(* Nothing that debug validation would report: the framebuffer is complete *)
(* and the bound program, if there is one, validates.                      *)
Sound(c) ==
  /\ FramebufferComplete(c)
  /\ c.program # Null => ProgramValid(c, c.program)

(* C13: with automatic debug validation on, a state-changing call that     *)
(* returns leaves nothing for a later call to report: from a state with a  *)
(* complete framebuffer and a valid bound program it returns in such a     *)
(* state.                                                                  *)
C13_ValidationReportsAtOnce ==
  [][ (/\ gpgpu.autoDebugValidate
       /\ ~gpgpu.disposed
       /\ Sound(gpgpu)
       /\ last'.op \in StateChangingCalls
       /\ last'.thrown = NoError)
        => Sound(gpgpu') ]_vars

(* How many times the last call called fn on WebGL. *)
Issued(c, fn) == Cardinality({i \in DOMAIN c.glLog : c.glLog[i].fn = fn})

(* C14: blockUntilAllProgramsCompleted and dispose, when they return, have *)
(* issued finish once; a call of any other operation, and a call that      *)
(* throws because the context is disposed, has issued no finish.           *)
C14_FinishOnlyInBlockAndDispose ==
  Issued(gpgpu, "finish") =
    IF /\ last.op \in {"blockUntilAllProgramsCompleted", "dispose"}
       /\ last.thrown = NoError
      THEN 1 ELSE 0

(* A dispose of a context with a bound program returned after a finish. *)
C14_Witness ==
  /\ last.op = "dispose"
  /\ last.thrown = NoError
  /\ gpgpu.program # Null
  /\ Logged(gpgpu, "finish")

(* C14 as stated: no operation but blockUntilAllProgramsCompleted issues   *)
(* finish.                                                                 *)
C14_OnlyBlockFinishes ==
  Logged(gpgpu, "finish") => last.op = "blockUntilAllProgramsCompleted"

(* C15: a setOutputMatrixTexture(t, rows, columns) that returns has        *)
(* attached t to the framebuffer, made t the bound output and set the      *)
(* viewport and the scissor to (0, 0, columns, rows); a                    *)
(* setOutputMatrixWriteRegion(startRow, numRows, startColumn, numColumns)  *)
(* that returns has set the scissor to (startColumn, startRow, numColumns, *)
(* numRows) and changed nothing else of the context or of WebGL.           *)
C15_OutputAndWriteRegion ==
  [][ /\ (last'.op = "setOutputMatrixTexture" /\ last'.thrown = NoError) =>
           LET t == last'.args[1]
               rows == last'.args[2]
               columns == last'.args[3]
           IN /\ gpgpu'.glFbAttachment = t
              /\ gpgpu'.outputTexture = t
              /\ gpgpu'.glViewport = <<0, 0, columns, rows>>
              /\ gpgpu'.glScissor = <<0, 0, columns, rows>>
      /\ (last'.op = "setOutputMatrixWriteRegion" /\ last'.thrown = NoError) =>
           LET startRow == last'.args[1]
               numRows == last'.args[2]
               startColumn == last'.args[3]
               numColumns == last'.args[4]
           IN /\ gpgpu'.glScissor = <<startColumn, startRow, numColumns, numRows>>
              /\ State(gpgpu') =
                   [State(gpgpu) EXCEPT !.glScissor = gpgpu'.glScissor] ]_vars

(* A write region whose rows and columns differ was set on an output whose *)
(* rows and columns differ.                                                *)
C15_Witness ==
  /\ last.op = "setOutputMatrixWriteRegion"
  /\ last.thrown = NoError
  /\ last.args = <<1, 1, 0, 2>>
  /\ gpgpu.outputTexture # Null
  /\ gpgpu.glFbAttachment = gpgpu.outputTexture
  /\ gpgpu.glViewport = <<0, 0, 2, 1>>
  /\ gpgpu.glScissor = <<0, 1, 2, 1>>

Downloads == {"downloadMatrixFromTexture", "downloadMatrixFromPackedTexture"}
Uploads == {"uploadMatrixToTexture", "uploadMatrixToPackedTexture"}
FormatOf(op) ==
  IF op \in {"uploadMatrixToTexture", "downloadMatrixFromTexture"}
    THEN "unpacked" ELSE "packed"

(* C16: a download of a texture that directly follows an upload to it in   *)
(* the same format and with the same rows and columns returns the uploaded *)
(* matrix, whatever output is bound; so does a download after further      *)
(* calls, as long as no call has drawn to the texture or uploaded to it    *)
(* again: an upload makes the matrix what the texture holds, a draw        *)
(* changes only the texture attached as the output, and the other calls    *)
(* change no texture's contents.                                           *)
C16_UploadThenDownload ==
  [][ /\ (last'.op \in Downloads /\ last'.thrown = NoError) =>
           LET t == last'.args[1]
               texels == gpgpu.glTexels[t]
           IN /\ (/\ last.op \in Uploads
                  /\ last.thrown = NoError
                  /\ FormatOf(last.op) = FormatOf(last'.op)
                  /\ SubSeq(last.args, 1, 3) = last'.args)
                   => last'.ret = last.args[4]
              /\ (/\ texels.format = FormatOf(last'.op)
                  /\ texels.rows = last'.args[2]
                  /\ texels.columns = last'.args[3])
                   => last'.ret = texels.values
              /\ gpgpu'.glTexels = gpgpu.glTexels
      /\ (last'.op \in Uploads /\ last'.thrown = NoError) =>
           gpgpu'.glTexels =
             [gpgpu.glTexels EXCEPT ![last'.args[1]] =
                [format |-> FormatOf(last'.op), rows |-> last'.args[2],
                 columns |-> last'.args[3], values |-> last'.args[4]]]
      /\ (last'.op = "executeProgram") =>
           \A t \in DOMAIN gpgpu.glTexels :
             t # gpgpu.outputTexture => gpgpu'.glTexels[t] = gpgpu.glTexels[t]
      /\ (last'.op \in {"setOutputMatrixTexture", "setProgram", "createProgram"}) =>
           gpgpu'.glTexels = gpgpu.glTexels ]_vars

(* A download returned the matrix uploaded to a texture while another      *)
(* texture was the bound output and a program was bound.                   *)
C16_Witness ==
  /\ last.op = "downloadMatrixFromTexture"
  /\ last.thrown = NoError
  /\ gpgpu.glTexels[last.args[1]].format = "unpacked"
  /\ last.ret = gpgpu.glTexels[last.args[1]].values
  /\ gpgpu.outputTexture \notin {Null, last.args[1]}
  /\ gpgpu.glTexels[gpgpu.outputTexture].format = "unpacked"
  /\ gpgpu.glTexels[gpgpu.outputTexture].values # last.ret
  /\ gpgpu.program # Null

VariableNodes == {optimizer.variableNodes[i] : i \in DOMAIN optimizer.variableNodes}

(* C17: in an afterBatch, the array each variable node had in the          *)
(* activation map and the array it had in the cache map have been disposed *)
(* exactly once; the entries of the node in the cache map, in the          *)
(* activation map and node.data are arrays created in this call that have  *)
(* not been disposed, node.data being the entry of the activation map; no  *)
(* array has been disposed twice; every array of the gradient map has been *)
(* disposed once and the gradient map is a new empty map.                  *)
C17_AfterBatchDisposesAndRetains ==
  [][ last'.op = "afterBatch" =>
        /\ \A node \in VariableNodes :
             /\ optimizer.disposals[optimizer.activationArrayMap[node]] = 0
             /\ optimizer'.disposals[optimizer.activationArrayMap[node]] = 1
             /\ optimizer.disposals[optimizer.cache[node]] = 0
             /\ optimizer'.disposals[optimizer.cache[node]] = 1
             /\ \A a \in {optimizer'.cache[node],
                          optimizer'.activationArrayMap[node],
                          optimizer'.nodeData[node]} :
                  /\ a > Len(optimizer.disposals)
                  /\ optimizer'.disposals[a] = 0
             /\ optimizer'.nodeData[node] = optimizer'.activationArrayMap[node]
             /\ optimizer'.cache[node] # optimizer'.activationArrayMap[node]
        /\ \A a \in DOMAIN optimizer'.disposals : optimizer'.disposals[a] <= 1
        /\ \A node \in DOMAIN optimizer.variableGradients :
             /\ optimizer.disposals[optimizer.variableGradients[node]] = 0
             /\ optimizer'.disposals[optimizer.variableGradients[node]] = 1
        /\ DOMAIN optimizer.variableGradients = VariableNodes
        /\ optimizer'.variableGradients = <<>> ]_vars

(* The second afterBatch of an rmsprop optimizer over two nodes: what the  *)
(* first one kept has been disposed and the maps hold live arrays.         *)
C17_Witness ==
  /\ last.op = "afterBatch"
  /\ optimizer.kind = "rmsprop"
  /\ optimizer.batches = 2
  /\ VariableNodes = Nodes
  /\ \A node \in Nodes : optimizer.disposals[optimizer.cache[node]] = 0
  /\ \E a \in DOMAIN optimizer.disposals :
       a > MaxNodes /\ optimizer.disposals[a] = 1

(* C18: a runProgram that returns leaves the binary's program bound and    *)
(* the output array's texture bound as the output; a deleteProgram of the  *)
(* bound program that returns leaves the bound-program slot empty; and a   *)
(* dispose of a context that is not disposed and whose bound-program slot  *)
(* is empty returns, disposes the context and emits no bound-program       *)
(* diagnostic.                                                             *)
C18_TeardownLeavesNoProgram ==
  [][ /\ (last'.op = "runProgram" /\ last'.thrown = NoError) =>
           /\ gpgpu'.program = binaries[last'.args[1]].webGLProgram
           /\ gpgpu'.outputTexture = arrays[last'.args[3]].texture
      /\ (/\ last'.op = "deleteProgram"
          /\ last'.thrown = NoError
          /\ last'.args[1] = gpgpu.program) => gpgpu'.program = Null
      /\ (last'.op = "dispose" /\ ~gpgpu.disposed /\ gpgpu.program = Null) =>
           /\ last'.thrown = NoError
           /\ gpgpu'.disposed
           /\ \A i \in DOMAIN gpgpu'.warnings : gpgpu'.warnings[i] # WarnProgram
    ]_vars

(* The context was disposed after a run and a deleteProgram of the         *)
(* binary's program: WebGL still has the program current, it is deleted,   *)
(* and the only diagnostic is the one for the output that is still bound.  *)
C18_Witness ==
  /\ last.op = "dispose"
  /\ last.thrown = NoError
  /\ gpgpu.disposed
  /\ Len(binaries) >= 1
  /\ gpgpu.glCurrentProgram = binaries[1].webGLProgram
  /\ binaries[1].webGLProgram \notin gpgpu.glPrograms
  /\ gpgpu.program = Null
  /\ gpgpu.warnings = <<WarnOutput>>

(* C19: a download that returns leaves the bound-output slot and the bound *)
(* program as they were and the framebuffer's colour attachment equal to   *)
(* the bound-output slot (nothing when the slot is empty); the draw of an  *)
(* executeProgram that directly follows it goes to the bound output.       *)
C19_DownloadRestoresOutput ==
  [][ /\ (last'.op \in Downloads /\ last'.thrown = NoError) =>
           /\ gpgpu'.outputTexture = gpgpu.outputTexture
           /\ gpgpu'.program = gpgpu.program
           /\ gpgpu'.glCurrentProgram = gpgpu.glCurrentProgram
           /\ gpgpu'.glFbAttachment = gpgpu.outputTexture
      /\ (/\ last.op \in Downloads
          /\ last.thrown = NoError
          /\ last'.op = "executeProgram") =>
           /\ gpgpu'.outputTexture = gpgpu.outputTexture
           /\ \A i \in DOMAIN gpgpu'.glLog :
                gpgpu'.glLog[i].fn = "drawElements" =>
                  gpgpu'.glLog[i].args = <<gpgpu.outputTexture>> ]_vars

(* A texture other than the bound output was downloaded while a program    *)
(* was bound, and the bound output is attached again.                      *)
C19_Witness ==
  /\ last.op \in Downloads
  /\ last.thrown = NoError
  /\ gpgpu.outputTexture \notin {Null, last.args[1]}
  /\ gpgpu.glFbAttachment = gpgpu.outputTexture
  /\ gpgpu.program # Null
  /\ Logged(gpgpu, "readPixels")

(* C20: on a context that is not disposed, the texture attached to the     *)
(* framebuffer is the bound-output slot, nothing being attached when the   *)
(* slot is empty, after every call, those that throw from debug            *)
(* framebuffer validation included.                                        *)
C20_AttachmentIsBoundOutput ==
  ~gpgpu.disposed => gpgpu.glFbAttachment = gpgpu.outputTexture

(* C21: a runProgram given another number of inputs than the binary        *)
(* captured throws the input-count error, whatever the shapes of the       *)
(* inputs and of the output are, and has called nothing on the context and *)
(* nothing on WebGL; it throws that error in no other case; and a          *)
(* mismatch of the output alone is reported as a shape error, again before *)
(* any call.                                                               *)
C21_InputCountCheckedFirst ==
  (last.op = "runProgram") =>
    LET countsDiffer == Len(RunInputs) # Len(RunBinary.inShapeInfos)
        inputsMatch ==
          \A i \in DOMAIN RunInputs :
            CurrentShapeInfo(RunInputs[i]) =
              ReadShapeInfo(heap, RunBinary.inShapeInfos[i])
        outputMatches ==
          CurrentShapeInfo(RunOutput) = ReadShapeInfo(heap, RunBinary.outShapeInfo)
    IN /\ countsDiffer =>
            /\ last.thrown = ErrInputCount
            /\ gpgpu.calls = <<>>
            /\ gpgpu.glLog = <<>>
       /\ last.thrown = ErrInputCount => countsDiffer
       /\ (~countsDiffer /\ inputsMatch /\ ~outputMatches) =>
            /\ last.thrown \in {ErrShapes, ErrTexShapes}
            /\ gpgpu.calls = <<>>
            /\ gpgpu.glLog = <<>>

(* Two inputs were given to a binary of one input, and neither the first   *)
(* input nor the output has the captured shapes.                           *)
C21_Witness ==
  /\ last.op = "runProgram"
  /\ last.thrown = ErrInputCount
  /\ Len(RunInputs) = 2
  /\ Len(RunBinary.inShapeInfos) = 1
  /\ CurrentShapeInfo(RunInputs[1]) # ReadShapeInfo(heap, RunBinary.inShapeInfos[1])
  /\ CurrentShapeInfo(RunOutput) # ReadShapeInfo(heap, RunBinary.outShapeInfo)

(* The descriptors that differ from the one of the call in                 *)
(* supportsBroadcasting only: true, false and absent.                      *)
FlagVariants ==
  {KeyProgram(TRUE, last.args[4]), KeyProgram(FALSE, last.args[4]),
   WithoutFlag(KeyProgram(FALSE, last.args[4]))}

(* The broadcasting flag compileProgram passes to makeShader. *)
CompiledBroadcast(program) ==
  compileProgram(Reset(gpgpu, 0), heap, program, KeyInputs, KeyOutput)
    .ret.source.broadcast

(* C22: compileProgram generates the shader with broadcasting exactly when *)
(* supportsBroadcasting is true, and without it when the flag is false or  *)
(* absent; the key of a descriptor without the flag is the key of the      *)
(* descriptor with the flag false and not the key of the one with the flag *)
(* true; so descriptors that have the key of the call are compiled with    *)
(* the broadcasting setting of the call's descriptor.                      *)
C22_BroadcastOnlyWhenTrue ==
  (last.op = "makeShaderKey") =>
    /\ \A program \in FlagVariants :
         /\ CompiledBroadcast(program) =
              (program = KeyProgram(TRUE, last.args[4]))
         /\ makeShaderKey(heap, program, KeyInputs, KeyOutput) = last.ret
              => CompiledBroadcast(program) = CompiledBroadcast(KeyDescriptor)
    /\ makeShaderKey(heap, WithoutFlag(KeyProgram(FALSE, last.args[4])),
                     KeyInputs, KeyOutput)
         = makeShaderKey(heap, KeyProgram(FALSE, last.args[4]),
                         KeyInputs, KeyOutput)
    /\ makeShaderKey(heap, WithoutFlag(KeyProgram(FALSE, last.args[4])),
                     KeyInputs, KeyOutput)
         # makeShaderKey(heap, KeyProgram(TRUE, last.args[4]),
                         KeyInputs, KeyOutput)

(* The key of a descriptor without the flag was asked for, for one input. *)
C22_Witness ==
  /\ last.op = "makeShaderKey"
  /\ last.name = "absent"
  /\ Len(KeyInputs) = 1
  /\ last.ret = makeShaderKey(heap, KeyProgram(FALSE, last.args[4]),
                              KeyInputs, KeyOutput)

(* C23: a setProgram that throws from program validation leaves the bound  *)
(* program as it was, and a setOutputMatrixTexture that throws from        *)
(* framebuffer validation leaves the bound output as it was.               *)
C23_FailedBindKeepsSlot ==
  [][ /\ (last'.op = "setProgram" /\ last'.thrown = ErrValidation) =>
           gpgpu'.program = gpgpu.program
      /\ (last'.op = "setOutputMatrixTexture" /\ last'.thrown = ErrFramebuffer) =>
           gpgpu'.outputTexture = gpgpu.outputTexture ]_vars

(* The WebGL calls of dispose(), in order (lines 75-82). *)
DisposeCalls ==
  << <<"finish", "">>, <<"bindFramebuffer", "null">>,
     <<"deleteFramebuffer", "framebuffer">>, <<"bindBuffer", "ARRAY_BUFFER">>,
     <<"deleteBuffer", "vertexBuffer">>, <<"bindBuffer", "ELEMENT_ARRAY_BUFFER">>,
     <<"deleteBuffer", "indexBuffer">> >>

(* C24: a dispose() of a context that is not disposed issues its WebGL     *)
(* calls in the order finish, unbind and delete the framebuffer, unbind    *)
(* and delete the vertex buffer, unbind and delete the index buffer, up to *)
(* the call that throws, if one does; the context is disposed after it     *)
(* exactly when it returned, and then all the calls were issued; when it   *)
(* threw, the resources whose delete was issued are deleted all the same;  *)
(* and no call on a context that is not disposed throws the disposed       *)
(* error.                                                                  *)
C24_DisposedOnlyAtTheEnd ==
  [][ /\ (last'.op = "dispose" /\ ~gpgpu.disposed) =>
           LET log == gpgpu'.glLog IN
           /\ Len(log) <= Len(DisposeCalls)
           /\ \A i \in DOMAIN log : <<log[i].fn, log[i].name>> = DisposeCalls[i]
           /\ gpgpu'.disposed <=> last'.thrown = NoError
           /\ last'.thrown = NoError => Len(log) = Len(DisposeCalls)
           /\ last'.thrown # NoError => Len(log) >= 1
           /\ gpgpu'.framebuffer <=> (gpgpu.framebuffer /\ Len(log) < 3)
           /\ gpgpu'.vertexBuffer <=> (gpgpu.vertexBuffer /\ Len(log) < 5)
           /\ gpgpu'.indexBuffer <=> (gpgpu.indexBuffer /\ Len(log) < 7)
      /\ ~gpgpu.disposed => last'.thrown # ErrDisposed ]_vars

(* A program was bound on a context whose dispose() threw after it had     *)
(* deleted the framebuffer and the vertex buffer.                          *)
C24_Witness ==
  /\ ~gpgpu.disposed
  /\ ~gpgpu.framebuffer
  /\ ~gpgpu.vertexBuffer
  /\ gpgpu.indexBuffer
  /\ last.op = "setProgram"
  /\ last.thrown = NoError
  /\ gpgpu.program # Null

(* C25: once dispose() of an RmspropOptimizer has run, after any number of *)
(* beforeBatch/afterBatch rounds, every scalar the optimizer allocated     *)
(* (one, m, eps, c and the g of every beforeBatch) has been disposed       *)
(* exactly once.                                                           *)
C25_EveryScalarDisposedOnce ==
  (last.op = "optimizer.dispose" /\ optimizer.kind = "rmsprop") =>
    \A a \in optimizer.scalars : optimizer.disposals[a] = 1

(* C26: a beforeBatch that finds the cache map empty gives every variable  *)
(* node a cache entry that is an array made in this call, different from   *)
(* the node's gradient array and from the scalars; a beforeBatch that      *)
(* finds entries leaves the cache map as it is, with the arrays the last   *)
(* afterBatch kept; after any beforeBatch the cache map has one entry for  *)
(* each variable node and no other, and that entry has not been disposed.  *)
C26_CacheMadeOnceAndCarried ==
  [][ last'.op = "beforeBatch" =>
        /\ IF DOMAIN optimizer.cache = {}
             THEN \A node \in VariableNodes :
                    /\ optimizer'.cache[node] > Len(optimizer.disposals)
                    /\ optimizer'.cache[node] \notin optimizer'.scalars
                    /\ optimizer'.cache[node]
                         # optimizer'.variableGradients[node]
             ELSE optimizer'.cache = optimizer.cache
        /\ DOMAIN optimizer'.cache = VariableNodes
        /\ \A node \in VariableNodes :
             optimizer'.disposals[optimizer'.cache[node]] = 0 ]_vars

(* The third beforeBatch of an adagrad optimizer over two nodes: the cache *)
(* holds the arrays the second afterBatch kept, not disposed, and the two  *)
(* caches before them have been disposed.                                  *)
C26_Witness ==
  /\ last.op = "beforeBatch"
  /\ optimizer.kind = "adagrad"
  /\ optimizer.batches = 2
  /\ optimizer.inBatch
  /\ VariableNodes = Nodes
  /\ \A node \in Nodes :
       /\ optimizer.disposals[optimizer.cache[node]] = 0
       /\ optimizer.cache[node] \notin
            {optimizer.variableGradients[n] : n \in Nodes}
  /\ Cardinality({a \in DOMAIN optimizer.disposals :
                    optimizer.disposals[a] = 1}) >= 2 * MaxNodes

====
